---- MODULE Spec2Model ----
(***************************************************************************)
(* Model of the maze path-finder: the four grid solvers of                 *)
(* src/src/game/solver.ts (solveBFS, solveDFS, solveAStar, solveDijkstra)  *)
(* and the recursive-backtracking generator generateMaze                   *)
(* (src/unnamed/part_001).                                                 *)
(*                                                                         *)
(* SpecSolve : solve() called once per algorithm, in the order of solve's  *)
(*             switch, on a level drawn from a bounded family of wall      *)
(*             levels and binary levels; one action per loop iteration.    *)
(* SpecGen   : generateMaze(width, height, difficulty); one action per     *)
(*             iteration of the carving loop, then the exit carve, grid    *)
(*             conversion and start choice.                                *)
(* SpecGenSolve : generateMaze followed by solve() for each algorithm on   *)
(*             the level it returned, as App does.                         *)
(* SpecInvalid : solve() on invalid mazes without cells: non-rectangular    *)
(*             rows, zero rows or columns, start out of bounds.            *)
(* SpecGenSmall : generateMaze with a width or a height below 2.           *)
(* SpecGenFair : generateMaze on the sizes of SpecGenSolve, an iteration   *)
(*             that can be taken is taken.                                 *)
(* SpecSolveFair : solve() followed to its return on the closed room with  *)
(*             at most one wall or blocked cell changed.                   *)
(* SpecTwice : two calls of solve() on one level, interleaved.             *)
(* SpecDetour : solve() on a 7 by 7 room in which A* finds a shorter route *)
(*             to a cell that waits in its open set.                       *)
(* SpecApp   : the visualization of App: buttons, effects and timers, in   *)
(*             units of 25 ms; SpecAppFair lets time pass and due          *)
(*             callbacks run.                                              *)
(***************************************************************************)
EXTENDS Integers, Sequences, FiniteSets, TLC

VARIABLES
    level,          \* the Level handed to solve / returned by generateMaze
    alg,            \* algorithm whose solveX call is running, or "none"
    queue,          \* solveBFS / solveDijkstra: queue
    openSet,        \* solveAStar: openSet
    visited,        \* per-solver visited matrix
    parent,         \* solveDFS / solveAStar / solveDijkstra: parent matrix
    gScore,         \* solveAStar: gScore
    fScore,         \* solveAStar: fScore
    distance,       \* solveDijkstra: distance
    visitedCells,   \* visitedCells of the running call
    detailedSteps,  \* detailedSteps of the running call
    stepNumber,     \* stepNumber of the running call
    callStack,      \* solveDFS: the activation records of dfs(pos)
    sol,            \* value returned by solve(level, a), per algorithm
    gen,            \* generateMaze: its locals and position
    suspended,      \* the locals of a second solve call, while it waits
    isVisualizing,  \* App: state isVisualizing
    visualizationCancelled,  \* App: visualizationCancelledRef.current
    currentStep,    \* App: state currentStep
    showOptimalPath,  \* App: state showOptimalPath
    isPaused,       \* App: state isPaused
    isStepMode,     \* App: state isStepMode
    visualizedCells,  \* App: state visualizedCells
    solution,       \* App: state solution
    timers,         \* App: the pending setTimeout / setInterval callbacks
    clicks          \* App: number of user inputs handled so far

appVars == << isVisualizing, visualizationCancelled, currentStep,
              showOptimalPath, isPaused, isStepMode, visualizedCells,
              solution, timers, clicks >>

vars == << level, alg, queue, openSet, visited, parent, gScore, fScore,
           distance, visitedCells, detailedSteps, stepNumber, callStack,
           sol, gen, suspended, appVars >>

solverVars == << alg, queue, openSet, visited, parent, gScore, fScore,
                 distance, visitedCells, detailedSteps, stepNumber,
                 callStack, sol >>

\* what a step of a solveX call leaves alone: the level, the generator, the
\* locals of any other call and the App
outsideSolve == << level, gen, suspended, appVars >>

(***************************************************************************)
(* Bounds of the model.                                                    *)
(***************************************************************************)
MaxWallChanges == 2  \* wall levels: wall flags set apart from the closed room
MaxBlocked == 4      \* binary levels: cells with grid value 1
MaxWidth == 3        \* generateMaze: largest width
MaxHeight == 4       \* generateMaze: largest height
MaxSmallSide == 6     \* generateMaze below 2 by 2: largest width or height
MaxArea == 12        \* generateMaze followed by solve: most cells of a maze

\* the levels handed to solve are GridSize[1] rows by GridSize[2] columns
GridSize == << 3, 3 >>
Rows == GridSize[1]
Cols == GridSize[2]

(***************************************************************************)
(* Values of the program.                                                  *)
(***************************************************************************)
Infinity == 1000000  \* stands for the IEEE +Infinity filling gScore etc.
NULL == -2           \* solveBFS: the null filling visited
NoPos == [r |-> -1, c |-> -1]   \* the null of a Pos | null slot

\* what reading an element an array does not have yields
Undefined == -3

Algorithms == << "bfs", "dfs", "astar", "dijkstra" >>

Pos(r, c) == [r |-> r, c |-> c]

Cells(rows, cols) == { Pos(r, c) : r \in 0..(rows - 1), c \in 0..(cols - 1) }

\* DIRS gone wrong: left listed before down
DIRSLeftBeforeDown ==
    << [r |-> -1, c |-> 0], [r |-> 0, c |-> -1], [r |-> 1, c |-> 0],
       [r |-> 0, c |-> 1] >>

DIRS == << [r |-> -1, c |-> 0],
           [r |-> 1, c |-> 0],
           [r |-> 0, c |-> -1],
           [r |-> 0, c |-> 1] >>

\* heuristic gone wrong: the Manhattan distance to the generator's exit cell
\* (0,1), although any border opening is an exit
heuristicToCarvedExit(pos, rows, cols) ==
    pos.r + (IF pos.c >= 1 THEN pos.c - 1 ELSE 1 - pos.c)

Min2(a, b) == IF a < b THEN a ELSE b

\* the heuristic gone wrong: rows - pos.r and cols - pos.c, the - 1 forgotten
heuristicOffByOne(pos, rows, cols) ==
    Min2(Min2(pos.r, pos.c), Min2(rows - pos.r, cols - pos.c))

heuristic(pos, rows, cols) ==
    Min2(Min2(pos.r, pos.c), Min2(rows - 1 - pos.r, cols - 1 - pos.c))

InBounds(p, rows, cols) ==
    ~(p.r < 0 \/ p.r >= rows \/ p.c < 0 \/ p.c >= cols)

canMoveBetween(lv, from, to) ==
    IF lv.hasCells
    THEN LET dr == to.r - from.r
             dc == to.c - from.c
         IN  IF dr = -1 /\ dc = 0 THEN ~lv.cells[from].walls.top
             ELSE IF dr = 1 /\ dc = 0 THEN ~lv.cells[from].walls.bottom
             ELSE IF dr = 0 /\ dc = -1 THEN ~lv.cells[from].walls.left
             ELSE IF dr = 0 /\ dc = 1 THEN ~lv.cells[from].walls.right
             ELSE FALSE
    ELSE lv.grid[to] = 0

\* canExit gone wrong: the test of the right border is missing
canExitNoRight(lv, cur) ==
    IF lv.hasCells
    THEN IF cur.r = 0 /\ ~lv.cells[cur].walls.top THEN TRUE
         ELSE IF cur.r = lv.rows - 1 /\ ~lv.cells[cur].walls.bottom THEN TRUE
         ELSE IF cur.c = 0 /\ ~lv.cells[cur].walls.left THEN TRUE
         ELSE FALSE
    ELSE (cur.r = 0 \/ cur.c = 0 \/ cur.r = lv.rows - 1)

canExit(lv, cur) ==
    IF lv.hasCells
    THEN IF cur.r = 0 /\ ~lv.cells[cur].walls.top THEN TRUE
         ELSE IF cur.r = lv.rows - 1 /\ ~lv.cells[cur].walls.bottom THEN TRUE
         ELSE IF cur.c = 0 /\ ~lv.cells[cur].walls.left THEN TRUE
         ELSE IF cur.c = lv.cols - 1 /\ ~lv.cells[cur].walls.right THEN TRUE
         ELSE FALSE
    ELSE (cur.r = 0 \/ cur.c = 0 \/ cur.r = lv.rows - 1 \/ cur.c = lv.cols - 1)

\* path.reverse() gone wrong: the path is left in walk-back order
NotReversed(s) == s

Reverse(s) == [i \in 1..Len(s) |-> s[Len(s) + 1 - i]]

(***************************************************************************)
(* The levels handed to solve.                                             *)
(***************************************************************************)
RECURSIVE SubsetsUpTo(_, _)
SubsetsUpTo(S, k) ==
    IF k = 0 THEN { {} }
    ELSE LET prev == SubsetsUpTo(S, k - 1)
         IN  prev \cup { T \cup {x} : T \in prev, x \in S }

\* a wall between two 4-adjacent cells, named by its upper or left cell
InteriorWalls(rows, cols) ==
    { << p, "bottom" >> : p \in Cells(rows - 1, cols) } \cup
    { << p, "right" >> : p \in Cells(rows, cols - 1) }

\* an outward-facing wall of a border cell (a corner cell has two)
BorderWalls(rows, cols) ==
    { << Pos(0, c), "top" >> : c \in 0..(cols - 1) } \cup
    { << Pos(rows - 1, c), "bottom" >> : c \in 0..(cols - 1) } \cup
    { << Pos(r, 0), "left" >> : r \in 0..(rows - 1) } \cup
    { << Pos(r, cols - 1), "right" >> : r \in 0..(rows - 1) }

\* MazeCell matrix of a room in which the interior walls of S stand (on
\* both sides) and the border is closed except for the border walls of S
WallCells(rows, cols, S) ==
    [ p \in Cells(rows, cols) |->
        [ walls |->
            [ top    |-> IF p.r = 0 THEN << p, "top" >> \notin S
                         ELSE << Pos(p.r - 1, p.c), "bottom" >> \in S,
              right  |-> IF p.c = cols - 1 THEN << p, "right" >> \notin S
                         ELSE << p, "right" >> \in S,
              bottom |-> IF p.r = rows - 1 THEN << p, "bottom" >> \notin S
                         ELSE << p, "bottom" >> \in S,
              left   |-> IF p.c = 0 THEN << p, "left" >> \notin S
                         ELSE << Pos(p.r, p.c - 1), "right" >> \in S ],
          visited |-> TRUE ] ]

NoCells == [ p \in {} |-> 0 ]

WallLevels ==
    { [ rows |-> Rows, cols |-> Cols, hasCells |-> TRUE,
        cells |-> WallCells(Rows, Cols, S),
        grid |-> [ p \in Cells(Rows, Cols) |-> 0 ],
        start |-> s ] :
      S \in SubsetsUpTo(InteriorWalls(Rows, Cols) \cup
                        BorderWalls(Rows, Cols), MaxWallChanges),
      s \in Cells(Rows, Cols) }

BinaryLevels ==
    { [ rows |-> Rows, cols |-> Cols, hasCells |-> FALSE,
        cells |-> NoCells,
        grid |-> [ p \in Cells(Rows, Cols) |-> IF p \in B THEN 1 ELSE 0 ],
        start |-> s ] :
      B \in SubsetsUpTo(Cells(Rows, Cols), MaxBlocked),
      s \in Cells(Rows, Cols) }

Levels == WallLevels \cup BinaryLevels

\* Invalid mazes, all without cells.  Non-rectangular grids: row 0 has Cols
\* elements and a later row r has len[r] of them, fewer in one row at least;
\* the elements such a row lacks read as undefined.
RaggedLevels ==
    { [ rows |-> Rows, cols |-> Cols, hasCells |-> FALSE,
        cells |-> NoCells,
        grid |-> [ p \in Cells(Rows, Cols) |->
                     IF p.r >= 1 /\ p.c >= len[p.r] THEN Undefined
                     ELSE IF p \in B THEN 1 ELSE 0 ],
        start |-> s ] :
      len \in { l \in [ 1..(Rows - 1) -> 0..Cols ] :
                  \E r \in 1..(Rows - 1) : l[r] < Cols },
      B \in SubsetsUpTo(Cells(Rows, Cols), 1),
      s \in Cells(Rows, Cols) }

\* grids of rows empty rows (zero columns)
ZeroColumnLevels ==
    { [ rows |-> rows, cols |-> 0, hasCells |-> FALSE, cells |-> NoCells,
        grid |-> [ p \in Cells(rows, 0) |-> 0 ], start |-> s ] :
      rows \in 1..Rows, s \in Cells(Rows, Cols) }

\* the grid [] (zero rows); grid[0].length, the cols of a level, has no value
ZeroRowLevels ==
    { [ rows |-> 0, cols |-> 0, hasCells |-> FALSE, cells |-> NoCells,
        grid |-> [ p \in Cells(0, 0) |-> 0 ], start |-> s ] :
      s \in Cells(Rows, Cols) }

\* positions out of bounds: one row above or below the grid, or two columns
\* to its left or right (none of the neighbours of these is in bounds)
OutsidePositions ==
    { Pos(r, c) : r \in { -1, Rows }, c \in 0..(Cols - 1) } \cup
    { Pos(r, c) : r \in 0..(Rows - 1), c \in { -2, Cols + 1 } }

OutsideStartLevels ==
    { [ rows |-> Rows, cols |-> Cols, hasCells |-> FALSE,
        cells |-> NoCells,
        grid |-> [ p \in Cells(Rows, Cols) |-> IF p \in B THEN 1 ELSE 0 ],
        start |-> s ] :
      B \in SubsetsUpTo(Cells(Rows, Cols), 1),
      s \in OutsidePositions }

InvalidLevels ==
    RaggedLevels \cup ZeroColumnLevels \cup ZeroRowLevels \cup
    OutsideStartLevels

(***************************************************************************)
(* Results of solve.                                                       *)
(***************************************************************************)
NotRun == [ status |-> "notrun" ]
Null == [ status |-> "null" ]

\* the call ended with an uncaught TypeError (a property of undefined read)
Threw == [ status |-> "threw", error |-> "TypeError" ]

Solution(path, vc, name, steps) ==
    [ status |-> "solution", distance |-> Len(path) - 1, path |-> path,
      visitedCells |-> vc, algorithm |-> name, detailedSteps |-> steps ]

Returned(a) == sol[a].status # "notrun"
Found(a) == sol[a].status = "solution"

\* solve(level, a) is called once per algorithm, in the order of the switch
NextAlgorithm ==
    IF \A i \in 1..Len(Algorithms) : Returned(Algorithms[i]) THEN "none"
    ELSE Algorithms[CHOOSE i \in 1..Len(Algorithms) :
                      /\ ~Returned(Algorithms[i])
                      /\ \A j \in 1..(i - 1) : Returned(Algorithms[j])]

\* a solveX call returns: its locals are dropped
Return(a, result) ==
    /\ sol' = [sol EXCEPT ![a] = result]
    /\ alg' = "none"
    /\ queue' = <<>> /\ openSet' = <<>> /\ visited' = <<>>
    /\ parent' = <<>> /\ gScore' = <<>> /\ fScore' = <<>>
    /\ distance' = <<>> /\ visitedCells' = <<>> /\ detailedSteps' = <<>>
    /\ stepNumber' = 0 /\ callStack' = <<>>

\* the elements of a rows by cols matrix of a solver once the element at
\* level.start has been assigned: Array.from(...) makes rows by cols, and
\* the assignment adds the element when the row has none at start.c
Slots(lv) == Cells(lv.rows, lv.cols) \cup { lv.start }

\* level.grid[0] is undefined: reading its length throws
NoFirstRow(lv) == lv.rows = 0

\* matrix[level.start.r] is undefined: an access to its element throws
NoStartRow(lv) == lv.start.r < 0 \/ lv.start.r >= lv.rows

(***************************************************************************)
(* solveBFS                                                                *)
(***************************************************************************)
Encode(p, cols) == p.r * cols + p.c

Decode(prevIdx, cols) == Pos(prevIdx \div cols, prevIdx % cols)

\* queue.shift() gone wrong: queue.pop(), the newest element is removed
pop(q) == [ cur |-> q[Len(q)], rest |-> SubSeq(q, 1, Len(q) - 1) ]

\* queue.shift(): the element removed and the rest
shift(q) == [ cur |-> Head(q), rest |-> Tail(q) ]

\* the walk gone wrong: the count starts at 1, start is given level 1
RECURSIVE BFSCurrentLevelFromOne(_, _, _)
BFSCurrentLevelFromOne(vis, cols, temp) ==
    IF vis[temp] # -1
    THEN 1 + BFSCurrentLevelFromOne(vis, cols, Decode(vis[temp], cols))
    ELSE 1

RECURSIVE BFSCurrentLevel(_, _, _)
BFSCurrentLevel(vis, cols, temp) ==
    IF vis[temp] # -1
    THEN 1 + BFSCurrentLevel(vis, cols, Decode(vis[temp], cols))
    ELSE 0

\* the cells pushed on path, before path.reverse()
RECURSIVE BFSWalkBack(_, _, _)
BFSWalkBack(vis, cols, p) ==
    IF vis[p] = -1 THEN << p >>
    ELSE << p >> \o BFSWalkBack(vis, cols, Decode(vis[p], cols))

\* the neighbour loop gone wrong: a cell with a predecessor keeps it but is
\* queued again, every time a neighbour of it is expanded
RECURSIVE BFSNeighborsRevisit(_, _, _, _)
BFSNeighborsRevisit(lv, cur, i, st) ==
    IF i > Len(DIRS) THEN st
    ELSE LET nxt == Pos(cur.r + DIRS[i].r, cur.c + DIRS[i].c)
         IN  IF ~InBounds(nxt, lv.rows, lv.cols)
             THEN BFSNeighborsRevisit(lv, cur, i + 1, st)
             ELSE IF ~canMoveBetween(lv, cur, nxt)
             THEN BFSNeighborsRevisit(lv, cur, i + 1, st)
             ELSE BFSNeighborsRevisit(lv, cur, i + 1,
                    [ visited |-> IF st.visited[nxt] # NULL THEN st.visited
                                  ELSE [st.visited EXCEPT
                                          ![nxt] = Encode(cur, lv.cols)],
                      queue |-> Append(st.queue, nxt),
                      neighborsAdded |-> st.neighborsAdded + 1 ])

\* the for (const d of DIRS) loop, from direction i on
RECURSIVE BFSNeighbors(_, _, _, _)
BFSNeighbors(lv, cur, i, st) ==
    IF i > Len(DIRS) THEN st
    ELSE LET nxt == Pos(cur.r + DIRS[i].r, cur.c + DIRS[i].c)
         IN  IF ~InBounds(nxt, lv.rows, lv.cols)
             THEN BFSNeighbors(lv, cur, i + 1, st)
             ELSE IF ~canMoveBetween(lv, cur, nxt)
             THEN BFSNeighbors(lv, cur, i + 1, st)
             ELSE IF st.visited[nxt] # NULL
             THEN BFSNeighbors(lv, cur, i + 1, st)
             ELSE BFSNeighbors(lv, cur, i + 1,
                    [ visited |-> [st.visited EXCEPT
                                     ![nxt] = Encode(cur, lv.cols)],
                      queue |-> Append(st.queue, nxt),
                      neighborsAdded |-> st.neighborsAdded + 1 ])

\* solve(level, 'bfs') up to the first test of the while loop
solveBFS ==
    /\ alg = "none"
    /\ NextAlgorithm = "bfs"
    /\ IF NoFirstRow(level) \/ NoStartRow(level)
       THEN Return("bfs", Threw)
       ELSE /\ alg' = "bfs"
            /\ queue' = << level.start >>
            /\ visited' = [ [ p \in Slots(level) |-> NULL ]
                              EXCEPT ![level.start] = -1 ]
            /\ visitedCells' = <<>>
            /\ detailedSteps' = <<>>
            /\ stepNumber' = 0
            /\ UNCHANGED << openSet, parent, gScore, fScore, distance,
                            callStack, sol >>
    /\ UNCHANGED outsideSolve

\* one iteration of while (queue.length)
BFSLoop ==
    /\ alg = "bfs"
    /\ Len(queue) > 0
    /\ LET cur == shift(queue).cur
           vc == Append(visitedCells, cur)
           currentLevel == BFSCurrentLevel(visited, level.cols, cur)
       IN  IF canExit(level, cur)
           THEN /\ Return("bfs",
                      Solution(Reverse(BFSWalkBack(visited, level.cols, cur)),
                               vc, "BFS", detailedSteps))
                /\ UNCHANGED outsideSolve
           ELSE LET st == BFSNeighbors(level, cur, 1,
                            [ visited |-> visited,
                              queue |-> shift(queue).rest,
                              neighborsAdded |-> 0 ])
                IN  /\ visited' = st.visited
                    /\ queue' = st.queue
                    /\ visitedCells' = vc
                    /\ detailedSteps' = Append(detailedSteps,
                          [ position |-> cur,
                            stepNumber |-> stepNumber,
                            algorithmData |->
                              [ queueSize |-> Len(st.queue),
                                currentLevel |-> currentLevel,
                                neighborsAdded |-> st.neighborsAdded ] ])
                    /\ stepNumber' = stepNumber + 1
                    /\ UNCHANGED << alg, openSet, parent, gScore, fScore,
                                    distance, callStack, sol >>
                    /\ UNCHANGED outsideSolve

\* the while loop ends with the queue empty: return null
BFSNotFound ==
    /\ alg = "bfs"
    /\ Len(queue) = 0
    /\ Return("bfs", Null)
    /\ UNCHANGED outsideSolve

(***************************************************************************)
(* solveDFS                                                                *)
(***************************************************************************)
\* the cells pushed on path by while (current) { ... }, before path.reverse()
RECURSIVE WalkBack(_, _)
WalkBack(par, current) ==
    IF current = NoPos THEN <<>>
    ELSE << current >> \o WalkBack(par, par[current])

RECURSIVE DFSStackDepth(_, _)
DFSStackDepth(par, current) ==
    IF current # NoPos /\ par[current] # NoPos
    THEN 1 + DFSStackDepth(par, par[current])
    ELSE 0

\* the for loop of dfs gone wrong: the last direction (right) is never tried
RECURSIVE DFSNextDirButLast(_, _, _, _)
DFSNextDirButLast(lv, vis, pos, i) ==
    IF i > Len(DIRS) - 1 THEN Len(DIRS) + 1
    ELSE LET nxt == Pos(pos.r + DIRS[i].r, pos.c + DIRS[i].c)
         IN  IF ~InBounds(nxt, lv.rows, lv.cols)
             THEN DFSNextDirButLast(lv, vis, pos, i + 1)
             ELSE IF ~canMoveBetween(lv, pos, nxt)
             THEN DFSNextDirButLast(lv, vis, pos, i + 1)
             ELSE IF vis[nxt]
             THEN DFSNextDirButLast(lv, vis, pos, i + 1)
             ELSE i

\* first direction from i on that passes the three continue tests of dfs's
\* for loop, Len(DIRS) + 1 when there is none
RECURSIVE DFSNextDir(_, _, _, _)
DFSNextDir(lv, vis, pos, i) ==
    IF i > Len(DIRS) THEN i
    ELSE LET nxt == Pos(pos.r + DIRS[i].r, pos.c + DIRS[i].c)
         IN  IF ~InBounds(nxt, lv.rows, lv.cols)
             THEN DFSNextDir(lv, vis, pos, i + 1)
             ELSE IF ~canMoveBetween(lv, pos, nxt)
             THEN DFSNextDir(lv, vis, pos, i + 1)
             ELSE IF vis[nxt]
             THEN DFSNextDir(lv, vis, pos, i + 1)
             ELSE i

\* dfs(pos) from its first statement up to the for loop; a cell that can
\* exit is returned through every caller and solveDFS returns the Solution
DFSCall(pos, par, stack) ==
    LET vc == Append(visitedCells, pos)
    IN  IF canExit(level, pos)
        THEN Return("dfs",
               Solution(Reverse(WalkBack(par, pos)), vc, "DFS",
                        detailedSteps))
        ELSE /\ alg' = "dfs"
             /\ visited' = [visited EXCEPT ![pos] = TRUE]
             /\ visitedCells' = vc
             /\ parent' = par
             /\ callStack' = Append(stack,
                   [ pos |-> pos, i |-> 1, validNeighbors |-> 0,
                     stackDepth |-> DFSStackDepth(par, pos) ])
             /\ UNCHANGED << queue, openSet, gScore, fScore, distance,
                             detailedSteps, stepNumber, sol >>

\* solve(level, 'dfs'): the set-up
solveDFS ==
    /\ alg = "none"
    /\ NextAlgorithm = "dfs"
    /\ IF NoFirstRow(level)
       THEN Return("dfs", Threw)
       ELSE /\ alg' = "dfs"
            /\ visited' = [ p \in Slots(level) |-> FALSE ]
            /\ parent' = [ p \in Slots(level) |-> NoPos ]
            /\ visitedCells' = <<>>
            /\ detailedSteps' = <<>>
            /\ stepNumber' = 0
            /\ callStack' = <<>>
            /\ UNCHANGED << queue, openSet, gScore, fScore, distance, sol >>
    /\ UNCHANGED outsideSolve

\* const exitPos = dfs(level.start)
DFSStart ==
    /\ alg = "dfs"
    /\ callStack = <<>>
    /\ IF NoStartRow(level)
       THEN Return("dfs", Threw)
       ELSE DFSCall(level.start, parent, callStack)
    /\ UNCHANGED outsideSolve

\* the for loop of the innermost dfs(pos) reaches a neighbour to descend into
DFSDescend ==
    /\ alg = "dfs"
    /\ callStack # <<>>
    /\ LET top == callStack[Len(callStack)]
           j == DFSNextDir(level, visited, top.pos, top.i)
           nxt == Pos(top.pos.r + DIRS[j].r, top.pos.c + DIRS[j].c)
       IN  /\ j <= Len(DIRS)
           /\ DFSCall(nxt,
                [parent EXCEPT ![nxt] = top.pos],
                [callStack EXCEPT ![Len(callStack)] =
                    [ top EXCEPT !.i = j + 1,
                                 !.validNeighbors = top.validNeighbors + 1 ]])
    /\ UNCHANGED outsideSolve

\* the for loop of the innermost dfs(pos) ends: the step is recorded and
\* null is returned to the caller (solveDFS returns null when that is it)
DFSBacktrack ==
    /\ alg = "dfs"
    /\ callStack # <<>>
    /\ LET top == callStack[Len(callStack)]
           j == DFSNextDir(level, visited, top.pos, top.i)
           steps == Append(detailedSteps,
                      [ position |-> top.pos,
                        stepNumber |-> stepNumber,
                        algorithmData |->
                          [ stackDepth |-> top.stackDepth,
                            isBacktracking |-> FALSE,
                            deadEnd |-> (top.validNeighbors = 0) ] ])
       IN  /\ j > Len(DIRS)
           /\ IF Len(callStack) = 1
              THEN Return("dfs", Null)
              ELSE /\ callStack' = SubSeq(callStack, 1, Len(callStack) - 1)
                   /\ detailedSteps' = steps
                   /\ stepNumber' = stepNumber + 1
                   /\ UNCHANGED << alg, queue, openSet, visited, parent,
                                   gScore, fScore, distance, visitedCells,
                                   sol >>
    /\ UNCHANGED outsideSolve

(***************************************************************************)
(* solveAStar and solveDijkstra                                            *)
(***************************************************************************)
\* the scan gone wrong: <= for <, a later element wins a tie
RECURSIVE MinIndexLast(_, _, _, _)
MinIndexLast(list, score, i, currentIndex) ==
    IF i > Len(list) THEN currentIndex
    ELSE IF score[list[i]] <= score[list[currentIndex]]
         THEN MinIndexLast(list, score, i + 1, i)
         ELSE MinIndexLast(list, score, i + 1, currentIndex)

\* the scan for the lowest score, from index i on (1-based)
RECURSIVE MinIndex(_, _, _, _)
MinIndex(list, score, i, currentIndex) ==
    IF i > Len(list) THEN currentIndex
    ELSE IF score[list[i]] < score[list[currentIndex]]
         THEN MinIndex(list, score, i + 1, i)
         ELSE MinIndex(list, score, i + 1, currentIndex)

\* list.splice(currentIndex, 1) gone wrong: list.splice(currentIndex), which
\* removes every element from currentIndex on
spliceToEnd(list, currentIndex) == SubSeq(list, 1, currentIndex - 1)

\* list.splice(currentIndex, 1)
splice(list, currentIndex) ==
    SubSeq(list, 1, currentIndex - 1) \o
    SubSeq(list, currentIndex + 1, Len(list))

\* list.some(pos => pos.r === neighbor.r && pos.c === neighbor.c)
some(list, neighbor) ==
    \E k \in 1..Len(list) :
        list[k].r = neighbor.r /\ list[k].c = neighbor.c

\* the relaxation gone wrong: fScore from the heuristic of current
RECURSIVE AStarNeighborsStaleH(_, _, _, _)
AStarNeighborsStaleH(lv, current, i, st) ==
    IF i > Len(DIRS) THEN st
    ELSE LET neighbor == Pos(current.r + DIRS[i].r, current.c + DIRS[i].c)
             tentativeGScore == st.gScore[current] + 1
         IN  IF ~InBounds(neighbor, lv.rows, lv.cols)
             THEN AStarNeighborsStaleH(lv, current, i + 1, st)
             ELSE IF ~canMoveBetween(lv, current, neighbor)
             THEN AStarNeighborsStaleH(lv, current, i + 1, st)
             ELSE IF st.visited[neighbor]
             THEN AStarNeighborsStaleH(lv, current, i + 1, st)
             ELSE IF tentativeGScore < st.gScore[neighbor]
             THEN AStarNeighborsStaleH(lv, current, i + 1,
                    [ st EXCEPT
                        !.parent[neighbor] = current,
                        !.gScore[neighbor] = tentativeGScore,
                        !.fScore[neighbor] = tentativeGScore +
                            heuristic(current, lv.rows, lv.cols),
                        !.openSet = IF ~some(st.openSet, neighbor)
                                    THEN Append(st.openSet, neighbor)
                                    ELSE st.openSet ])
             ELSE AStarNeighborsStaleH(lv, current, i + 1, st)

\* the relaxation gone wrong: a cell that has a gScore keeps it, a shorter
\* route found later is discarded
RECURSIVE AStarNeighborsFirstRoute(_, _, _, _)
AStarNeighborsFirstRoute(lv, current, i, st) ==
    IF i > Len(DIRS) THEN st
    ELSE LET neighbor == Pos(current.r + DIRS[i].r, current.c + DIRS[i].c)
             tentativeGScore == st.gScore[current] + 1
         IN  IF ~InBounds(neighbor, lv.rows, lv.cols)
             THEN AStarNeighborsFirstRoute(lv, current, i + 1, st)
             ELSE IF ~canMoveBetween(lv, current, neighbor)
             THEN AStarNeighborsFirstRoute(lv, current, i + 1, st)
             ELSE IF st.visited[neighbor]
             THEN AStarNeighborsFirstRoute(lv, current, i + 1, st)
             ELSE IF st.gScore[neighbor] = Infinity
             THEN AStarNeighborsFirstRoute(lv, current, i + 1,
                    [ st EXCEPT
                        !.parent[neighbor] = current,
                        !.gScore[neighbor] = tentativeGScore,
                        !.fScore[neighbor] = tentativeGScore +
                            heuristic(neighbor, lv.rows, lv.cols),
                        !.openSet = IF ~some(st.openSet, neighbor)
                                    THEN Append(st.openSet, neighbor)
                                    ELSE st.openSet ])
             ELSE AStarNeighborsFirstRoute(lv, current, i + 1, st)

\* the relaxation gone wrong: the neighbor is pushed without the test for
\* its presence in openSet
RECURSIVE AStarNeighborsAlwaysPush(_, _, _, _)
AStarNeighborsAlwaysPush(lv, current, i, st) ==
    IF i > Len(DIRS) THEN st
    ELSE LET neighbor == Pos(current.r + DIRS[i].r, current.c + DIRS[i].c)
             tentativeGScore == st.gScore[current] + 1
         IN  IF ~InBounds(neighbor, lv.rows, lv.cols)
             THEN AStarNeighborsAlwaysPush(lv, current, i + 1, st)
             ELSE IF ~canMoveBetween(lv, current, neighbor)
             THEN AStarNeighborsAlwaysPush(lv, current, i + 1, st)
             ELSE IF st.visited[neighbor]
             THEN AStarNeighborsAlwaysPush(lv, current, i + 1, st)
             ELSE IF tentativeGScore < st.gScore[neighbor]
             THEN AStarNeighborsAlwaysPush(lv, current, i + 1,
                    [ st EXCEPT
                        !.parent[neighbor] = current,
                        !.gScore[neighbor] = tentativeGScore,
                        !.fScore[neighbor] = tentativeGScore +
                            heuristic(neighbor, lv.rows, lv.cols),
                        !.openSet = Append(st.openSet, neighbor) ])
             ELSE AStarNeighborsAlwaysPush(lv, current, i + 1, st)

\* the relaxation loop of solveAStar, from direction i on
RECURSIVE AStarNeighbors(_, _, _, _)
AStarNeighbors(lv, current, i, st) ==
    IF i > Len(DIRS) THEN st
    ELSE LET neighbor == Pos(current.r + DIRS[i].r, current.c + DIRS[i].c)
             tentativeGScore == st.gScore[current] + 1
         IN  IF ~InBounds(neighbor, lv.rows, lv.cols)
             THEN AStarNeighbors(lv, current, i + 1, st)
             ELSE IF ~canMoveBetween(lv, current, neighbor)
             THEN AStarNeighbors(lv, current, i + 1, st)
             ELSE IF st.visited[neighbor]
             THEN AStarNeighbors(lv, current, i + 1, st)
             ELSE IF tentativeGScore < st.gScore[neighbor]
             THEN AStarNeighbors(lv, current, i + 1,
                    [ st EXCEPT
                        !.parent[neighbor] = current,
                        !.gScore[neighbor] = tentativeGScore,
                        !.fScore[neighbor] = tentativeGScore +
                            heuristic(neighbor, lv.rows, lv.cols),
                        !.openSet = IF ~some(st.openSet, neighbor)
                                    THEN Append(st.openSet, neighbor)
                                    ELSE st.openSet ])
             ELSE AStarNeighbors(lv, current, i + 1, st)

\* solve(level, 'astar') up to the first test of the while loop
solveAStar ==
    /\ alg = "none"
    /\ NextAlgorithm = "astar"
    /\ IF NoFirstRow(level) \/ NoStartRow(level)
       THEN Return("astar", Threw)
       ELSE /\ alg' = "astar"
            /\ visited' = [ p \in Slots(level) |-> FALSE ]
            /\ visitedCells' = <<>>
            /\ detailedSteps' = <<>>
            /\ stepNumber' = 0
            /\ gScore' = [ [ p \in Slots(level) |-> Infinity ]
                             EXCEPT ![level.start] = 0 ]
            /\ fScore' = [ [ p \in Slots(level) |-> Infinity ]
                             EXCEPT ![level.start] =
                                 heuristic(level.start, level.rows,
                                           level.cols) ]
            /\ parent' = [ p \in Slots(level) |-> NoPos ]
            /\ openSet' = << level.start >>
            /\ UNCHANGED << queue, distance, callStack, sol >>
    /\ UNCHANGED outsideSolve

\* one iteration of while (openSet.length > 0)
AStarLoop ==
    /\ alg = "astar"
    /\ Len(openSet) > 0
    /\ LET currentIndex == MinIndex(openSet, fScore, 2, 1)
           current == openSet[currentIndex]
           open1 == splice(openSet, currentIndex)
           vis1 == [visited EXCEPT ![current] = TRUE]
           vc == Append(visitedCells, current)
           steps == Append(detailedSteps,
                      [ position |-> current,
                        stepNumber |-> stepNumber,
                        algorithmData |->
                          [ gScore |-> gScore[current],
                            hScore |-> heuristic(current, level.rows,
                                                 level.cols),
                            fScore |-> fScore[current],
                            openSetSize |-> Len(open1) ] ])
       IN  IF canExit(level, current)
           THEN Return("astar",
                  [ Solution(Reverse(WalkBack(parent, current)), vc, "A*",
                             steps)
                    EXCEPT !.status = "solution" ] @@
                  [ aStarScores |->
                      [ gScores |-> gScore,
                        hScores |-> [ p \in DOMAIN gScore |->
                                        heuristic(p, level.rows, level.cols) ],
                        fScores |-> fScore ] ])
           ELSE LET st == AStarNeighbors(level, current, 1,
                            [ visited |-> vis1, parent |-> parent,
                              gScore |-> gScore, fScore |-> fScore,
                              openSet |-> open1 ])
                IN  /\ visited' = vis1
                    /\ visitedCells' = vc
                    /\ detailedSteps' = steps
                    /\ stepNumber' = stepNumber + 1
                    /\ parent' = st.parent
                    /\ gScore' = st.gScore
                    /\ fScore' = st.fScore
                    /\ openSet' = st.openSet
                    /\ UNCHANGED << alg, queue, distance, callStack, sol >>
    /\ UNCHANGED outsideSolve

\* the while loop ends with openSet empty: return null
AStarNotFound ==
    /\ alg = "astar"
    /\ Len(openSet) = 0
    /\ Return("astar", Null)
    /\ UNCHANGED outsideSolve

\* the relaxation gone wrong: <= for <, an equally long route through a
\* later cell replaces the recorded one
RECURSIVE DijkstraNeighborsRelaxEqual(_, _, _, _)
DijkstraNeighborsRelaxEqual(lv, current, i, st) ==
    IF i > Len(DIRS) THEN st
    ELSE LET neighbor == Pos(current.r + DIRS[i].r, current.c + DIRS[i].c)
             newDistance == st.distance[current] + 1
         IN  IF ~InBounds(neighbor, lv.rows, lv.cols)
             THEN DijkstraNeighborsRelaxEqual(lv, current, i + 1, st)
             ELSE IF ~canMoveBetween(lv, current, neighbor)
             THEN DijkstraNeighborsRelaxEqual(lv, current, i + 1, st)
             ELSE IF st.visited[neighbor]
             THEN DijkstraNeighborsRelaxEqual(lv, current, i + 1, st)
             ELSE IF newDistance <= st.distance[neighbor]
             THEN DijkstraNeighborsRelaxEqual(lv, current, i + 1,
                    [ st EXCEPT
                        !.distance[neighbor] = newDistance,
                        !.parent[neighbor] = current,
                        !.relaxationCount = st.relaxationCount + 1,
                        !.queue = IF ~some(st.queue, neighbor)
                                  THEN Append(st.queue, neighbor)
                                  ELSE st.queue ])
             ELSE DijkstraNeighborsRelaxEqual(lv, current, i + 1, st)

\* the relaxation loop of solveDijkstra, from direction i on
RECURSIVE DijkstraNeighbors(_, _, _, _)
DijkstraNeighbors(lv, current, i, st) ==
    IF i > Len(DIRS) THEN st
    ELSE LET neighbor == Pos(current.r + DIRS[i].r, current.c + DIRS[i].c)
             newDistance == st.distance[current] + 1
         IN  IF ~InBounds(neighbor, lv.rows, lv.cols)
             THEN DijkstraNeighbors(lv, current, i + 1, st)
             ELSE IF ~canMoveBetween(lv, current, neighbor)
             THEN DijkstraNeighbors(lv, current, i + 1, st)
             ELSE IF st.visited[neighbor]
             THEN DijkstraNeighbors(lv, current, i + 1, st)
             ELSE IF newDistance < st.distance[neighbor]
             THEN DijkstraNeighbors(lv, current, i + 1,
                    [ st EXCEPT
                        !.distance[neighbor] = newDistance,
                        !.parent[neighbor] = current,
                        !.relaxationCount = st.relaxationCount + 1,
                        !.queue = IF ~some(st.queue, neighbor)
                                  THEN Append(st.queue, neighbor)
                                  ELSE st.queue ])
             ELSE DijkstraNeighbors(lv, current, i + 1, st)

\* solve(level, 'dijkstra') up to the first test of the while loop
solveDijkstra ==
    /\ alg = "none"
    /\ NextAlgorithm = "dijkstra"
    /\ IF NoFirstRow(level) \/ NoStartRow(level)
       THEN Return("dijkstra", Threw)
       ELSE /\ alg' = "dijkstra"
            /\ visited' = [ p \in Slots(level) |-> FALSE ]
            /\ visitedCells' = <<>>
            /\ detailedSteps' = <<>>
            /\ stepNumber' = 0
            /\ distance' = [ [ p \in Slots(level) |-> Infinity ]
                               EXCEPT ![level.start] = 0 ]
            /\ parent' = [ p \in Slots(level) |-> NoPos ]
            /\ queue' = << level.start >>
            /\ UNCHANGED << openSet, gScore, fScore, callStack, sol >>
    /\ UNCHANGED outsideSolve

\* one iteration of while (queue.length > 0)
DijkstraLoop ==
    /\ alg = "dijkstra"
    /\ Len(queue) > 0
    /\ LET currentIndex == MinIndex(queue, distance, 2, 1)
           current == queue[currentIndex]
           queue1 == splice(queue, currentIndex)
           vis1 == [visited EXCEPT ![current] = TRUE]
           vc == Append(visitedCells, current)
       IN  IF canExit(level, current)
           THEN Return("dijkstra",
                  Solution(Reverse(WalkBack(parent, current)), vc,
                           "Dijkstra", detailedSteps))
           ELSE LET st == DijkstraNeighbors(level, current, 1,
                            [ visited |-> vis1, parent |-> parent,
                              distance |-> distance, queue |-> queue1,
                              relaxationCount |-> 0 ])
                IN  /\ visited' = vis1
                    /\ visitedCells' = vc
                    /\ distance' = st.distance
                    /\ parent' = st.parent
                    /\ queue' = st.queue
                    /\ detailedSteps' = Append(detailedSteps,
                          [ position |-> current,
                            stepNumber |-> stepNumber,
                            algorithmData |->
                              [ currentDistance |-> st.distance[current],
                                relaxationCount |-> st.relaxationCount,
                                priorityQueueSize |-> Len(st.queue) ] ])
                    /\ stepNumber' = stepNumber + 1
                    /\ UNCHANGED << alg, openSet, gScore, fScore, callStack,
                                    sol >>
    /\ UNCHANGED outsideSolve

\* the while loop ends with the queue empty: return null
DijkstraNotFound ==
    /\ alg = "dijkstra"
    /\ Len(queue) = 0
    /\ Return("dijkstra", Null)
    /\ UNCHANGED outsideSolve

(***************************************************************************)
(* generateMaze                                                            *)
(***************************************************************************)
Difficulties == { "easy", "normal", "hard" }

directions == << [r |-> -1, c |-> 0],
                 [r |-> 1, c |-> 0],
                 [r |-> 0, c |-> -1],
                 [r |-> 0, c |-> 1] >>

\* Math.floor(n / 2) for n >= 0
FloorHalf(n) == n \div 2

\* the cell the carving starts from
SeedCell(width, height, difficulty) ==
    IF difficulty = "easy" THEN Pos(1, 1)
    ELSE Pos(FloorHalf(height), FloorHalf(width))

\* the bounds test gone wrong: next.c < width - 1 leaves the last column out
UnvisitedNeighborsShort(cells, width, height, current) ==
    LET all == [ i \in 1..Len(directions) |->
                   Pos(current.r + directions[i].r,
                       current.c + directions[i].c) ]
        ok(next) == /\ next.r >= 0 /\ next.r < height
                    /\ next.c >= 0 /\ next.c < width - 1
                    /\ ~cells[next].visited
    IN  SelectSeq(all, ok)

\* the test gone wrong: the visited flag of next is not looked at
UnvisitedNeighborsAny(cells, width, height, current) ==
    LET all == [ i \in 1..Len(directions) |->
                   Pos(current.r + directions[i].r,
                       current.c + directions[i].c) ]
        ok(next) == /\ next.r >= 0 /\ next.r < height
                    /\ next.c >= 0 /\ next.c < width
    IN  SelectSeq(all, ok)

\* the unvisited in-bounds neighbours of current, in the order of directions
UnvisitedNeighbors(cells, width, height, current) ==
    LET all == [ i \in 1..Len(directions) |->
                   Pos(current.r + directions[i].r,
                       current.c + directions[i].c) ]
        ok(next) == /\ next.r >= 0 /\ next.r < height
                    /\ next.c >= 0 /\ next.c < width
                    /\ ~cells[next].visited
    IN  SelectSeq(all, ok)

\* n.r < height / 3 || n.r > (2 * height) / 3 || ... , without fractions
IsEdgeNeighbor(n, width, height) ==
    \/ 3 * n.r < height \/ 3 * n.r > 2 * height
    \/ 3 * n.c < width \/ 3 * n.c > 2 * width

\* n.r > height / 4 && n.r < (3 * height) / 4 && ... , without fractions
IsCenterNeighbor(n, width, height) ==
    /\ 4 * n.r > height /\ 4 * n.r < 3 * height
    /\ 4 * n.c > width /\ 4 * n.c < 3 * width

\* the list getRandomNeighbor draws its result from; coin is the outcome of
\* the Math.random() < 0.7 (easy) or Math.random() < 0.3 (hard) test
getRandomNeighbor(neighbors, width, height, difficulty, coin) ==
    LET edgeNeighbors ==
            SelectSeq(neighbors, LAMBDA n : IsEdgeNeighbor(n, width, height))
        centerNeighbors ==
            SelectSeq(neighbors, LAMBDA n : IsCenterNeighbor(n, width, height))
    IN  IF difficulty = "easy" /\ Len(edgeNeighbors) > 0 /\ coin
        THEN edgeNeighbors
        ELSE IF difficulty = "hard" /\ coin /\ Len(centerNeighbors) > 0
        THEN centerNeighbors
        ELSE neighbors

\* wall removal gone wrong: only the wall on current's side is cleared
RemoveWallsOneSide(cells, current, next) ==
    LET carved ==
          IF next.r < current.r
          THEN [cells EXCEPT ![current].walls.top = FALSE]
          ELSE IF next.r > current.r
          THEN [cells EXCEPT ![current].walls.bottom = FALSE]
          ELSE IF next.c < current.c
          THEN [cells EXCEPT ![current].walls.left = FALSE]
          ELSE IF next.c > current.c
          THEN [cells EXCEPT ![current].walls.right = FALSE]
          ELSE cells
    IN  [carved EXCEPT ![next].visited = TRUE]

\* wall removal gone wrong: the sides are swapped, the walls facing away
\* from the other cell are cleared
RemoveWallsSwapped(cells, current, next) ==
    LET carved ==
          IF next.r < current.r
          THEN [cells EXCEPT ![current].walls.bottom = FALSE,
                             ![next].walls.top = FALSE]
          ELSE IF next.r > current.r
          THEN [cells EXCEPT ![current].walls.top = FALSE,
                             ![next].walls.bottom = FALSE]
          ELSE IF next.c < current.c
          THEN [cells EXCEPT ![current].walls.right = FALSE,
                             ![next].walls.left = FALSE]
          ELSE IF next.c > current.c
          THEN [cells EXCEPT ![current].walls.left = FALSE,
                             ![next].walls.right = FALSE]
          ELSE cells
    IN  [carved EXCEPT ![next].visited = TRUE]

\* wall removal gone wrong: the walls are cleared, next is not marked visited
RemoveWallsUnmarked(cells, current, next) ==
    IF next.r < current.r
    THEN [cells EXCEPT ![current].walls.top = FALSE,
                       ![next].walls.bottom = FALSE]
    ELSE IF next.r > current.r
    THEN [cells EXCEPT ![current].walls.bottom = FALSE,
                       ![next].walls.top = FALSE]
    ELSE IF next.c < current.c
    THEN [cells EXCEPT ![current].walls.left = FALSE,
                       ![next].walls.right = FALSE]
    ELSE IF next.c > current.c
    THEN [cells EXCEPT ![current].walls.right = FALSE,
                       ![next].walls.left = FALSE]
    ELSE cells

\* Remove walls between current and next cell, mark next visited
RemoveWalls(cells, current, next) ==
    LET carved ==
          IF next.r < current.r
          THEN [cells EXCEPT ![current].walls.top = FALSE,
                             ![next].walls.bottom = FALSE]
          ELSE IF next.r > current.r
          THEN [cells EXCEPT ![current].walls.bottom = FALSE,
                             ![next].walls.top = FALSE]
          ELSE IF next.c < current.c
          THEN [cells EXCEPT ![current].walls.left = FALSE,
                             ![next].walls.right = FALSE]
          ELSE IF next.c > current.c
          THEN [cells EXCEPT ![current].walls.right = FALSE,
                             ![next].walls.left = FALSE]
          ELSE cells
    IN  [carved EXCEPT ![next].visited = TRUE]

\* row-major list of the cells of the grid
RECURSIVE RowMajor(_, _, _)
RowMajor(width, height, k) ==
    IF k >= width * height THEN <<>>
    ELSE << Pos(k \div width, k % width) >> \o RowMajor(width, height, k + 1)

\* the list getRandomStartPosition draws its result from
\* the top half test gone wrong: pos.r <= height / 2
getRandomStartPositionInclusive(cells, width, height, difficulty) ==
    LET validCells ==
            SelectSeq(RowMajor(width, height, 0),
                      LAMBDA pos : cells[pos].visited)
        topHalfCells ==
            SelectSeq(validCells, LAMBDA pos : 2 * pos.r <= height)
        bottomHalfCells ==
            SelectSeq(validCells, LAMBDA pos : 2 * pos.r >= height)
    IN  IF difficulty = "easy" /\ Len(topHalfCells) > 0
        THEN topHalfCells
        ELSE IF difficulty = "hard" /\ Len(bottomHalfCells) > 0
        THEN bottomHalfCells
        ELSE validCells

getRandomStartPosition(cells, width, height, difficulty) ==
    LET validCells ==
            SelectSeq(RowMajor(width, height, 0),
                      LAMBDA pos : cells[pos].visited)
        topHalfCells ==
            SelectSeq(validCells, LAMBDA pos : 2 * pos.r < height)
        bottomHalfCells ==
            SelectSeq(validCells, LAMBDA pos : 2 * pos.r >= height)
    IN  IF difficulty = "easy" /\ Len(topHalfCells) > 0
        THEN topHalfCells
        ELSE IF difficulty = "hard" /\ Len(bottomHalfCells) > 0
        THEN bottomHalfCells
        ELSE validCells

NoLevel == [ rows |-> 0, cols |-> 0, hasCells |-> FALSE, cells |-> << >>,
             grid |-> << >>, start |-> NoPos ]

\* generateMaze(width, height, difficulty) up to the first test of the
\* carving loop
GenStart(width, height, difficulty) ==
    LET start == SeedCell(width, height, difficulty)
        new == [ pc |-> "carving", width |-> width, height |-> height,
                 difficulty |-> difficulty,
                 cells |-> [ p \in Cells(height, width) |->
                               [ walls |-> [ top |-> TRUE, right |-> TRUE,
                                             bottom |-> TRUE, left |-> TRUE ],
                                 visited |-> (p = start) ] ],
                 stack |-> << start >> ]
    IN  IF start \in Cells(height, width) THEN new
        ELSE \* cells[start.r][start.c] is undefined: TypeError
             [new EXCEPT !.pc = "threw", !.stack = << >>]

\* one iteration of while (stack.length > 0) that finds unvisited neighbours
GenCarve ==
    /\ gen.pc = "carving"
    /\ Len(gen.stack) > 0
    /\ LET current == gen.stack[Len(gen.stack)]
           neighbors == UnvisitedNeighbors(gen.cells, gen.width, gen.height,
                                           current)
       IN  /\ Len(neighbors) > 0
           /\ \E coin \in BOOLEAN :
                LET from == getRandomNeighbor(neighbors, gen.width,
                                gen.height, gen.difficulty, coin)
                IN  \E k \in 0..(Len(from) - 1) :
                      LET next == from[k + 1]
                      IN  gen' = [gen EXCEPT
                                    !.cells = RemoveWalls(gen.cells, current,
                                                          next),
                                    !.stack = Append(gen.stack, next)]
    /\ UNCHANGED << level, solverVars, suspended, appVars >>

\* one iteration of while (stack.length > 0) that finds none: stack.pop()
GenBacktrack ==
    /\ gen.pc = "carving"
    /\ Len(gen.stack) > 0
    /\ LET current == gen.stack[Len(gen.stack)]
           neighbors == UnvisitedNeighbors(gen.cells, gen.width, gen.height,
                                           current)
       IN  /\ Len(neighbors) = 0
           /\ gen' = [gen EXCEPT
                        !.stack = SubSeq(gen.stack, 1, Len(gen.stack) - 1)]
    /\ UNCHANGED << level, solverVars, suspended, appVars >>

\* the carving loop has ended: the exit is carved, the binary grid is
\* derived, the start position is drawn and the Level is returned
\* the exit carve gone wrong: row and column swapped, cells[1][0]
GenReturnSwappedExit ==
    /\ gen.pc = "carving"
    /\ Len(gen.stack) = 0
    /\ LET cells == [gen.cells EXCEPT ![Pos(1, 0)].walls.top = FALSE]
           grid == [ p \in Cells(gen.height, gen.width) |->
                       IF cells[p].visited THEN 0 ELSE 1 ]
           from == getRandomStartPosition(cells, gen.width, gen.height,
                                          gen.difficulty)
       IN  \E k \in 0..(Len(from) - 1) :
             /\ level' = [ rows |-> gen.height, cols |-> gen.width,
                           hasCells |-> TRUE, cells |-> cells,
                           grid |-> grid, start |-> from[k + 1] ]
             /\ gen' = [gen EXCEPT !.pc = "returned", !.cells = cells]
    /\ UNCHANGED << solverVars, suspended, appVars >>

\* the loop has ended: exit carve, grid conversion, start choice, return
GenReturn ==
    /\ gen.pc = "carving"
    /\ Len(gen.stack) = 0
    /\ IF Pos(0, 1) \notin Cells(gen.height, gen.width)
       THEN \* cells[0][1] is undefined: TypeError
            /\ gen' = [gen EXCEPT !.pc = "threw"]
            /\ level' = level
       ELSE LET cells == [gen.cells EXCEPT ![Pos(0, 1)].walls.top = FALSE]
                grid == [ p \in Cells(gen.height, gen.width) |->
                            IF cells[p].visited THEN 0 ELSE 1 ]
                from == getRandomStartPosition(cells, gen.width, gen.height,
                                               gen.difficulty)
            IN  \E k \in 0..(Len(from) - 1) :
                  /\ level' = [ rows |-> gen.height, cols |-> gen.width,
                                hasCells |-> TRUE, cells |-> cells,
                                grid |-> grid, start |-> from[k + 1] ]
                  /\ gen' = [gen EXCEPT !.pc = "returned", !.cells = cells]
    /\ UNCHANGED << solverVars, suspended, appVars >>

NoGen == [ pc |-> "off" ]

\* no second solve call, and the App not mounted
NoOtherCall == << >>

InitOutside ==
    /\ suspended = NoOtherCall
    /\ isVisualizing = FALSE /\ visualizationCancelled = FALSE
    /\ currentStep = 0 /\ showOptimalPath = FALSE /\ isPaused = FALSE
    /\ isStepMode = FALSE /\ visualizedCells = << >> /\ solution = Null
    /\ timers = << >> /\ clicks = 0

InitSolver ==
    /\ alg = "none"
    /\ queue = <<>> /\ openSet = <<>> /\ visited = <<>>
    /\ parent = <<>> /\ gScore = <<>> /\ fScore = <<>>
    /\ distance = <<>> /\ visitedCells = <<>> /\ detailedSteps = <<>>
    /\ stepNumber = 0 /\ callStack = <<>>
    /\ sol = [ a \in { Algorithms[i] : i \in 1..Len(Algorithms) } |-> NotRun ]

InitSolve ==
    /\ level \in Levels
    /\ gen = NoGen
    /\ InitSolver
    /\ InitOutside

NextSolve ==
    \/ solveBFS
    \/ BFSLoop
    \/ BFSNotFound
    \/ solveDFS
    \/ DFSStart
    \/ DFSDescend
    \/ DFSBacktrack
    \/ solveAStar
    \/ AStarLoop
    \/ AStarNotFound
    \/ solveDijkstra
    \/ DijkstraLoop
    \/ DijkstraNotFound

SpecSolve == InitSolve /\ [][NextSolve]_vars

\* the levels on which the four calls are followed to their return: the
\* closed room with at most FairChanges walls set apart, and the binary
\* levels with at most FairChanges cells blocked
FairChanges == 1

FairLevels ==
    { [ rows |-> Rows, cols |-> Cols, hasCells |-> TRUE,
        cells |-> WallCells(Rows, Cols, S),
        grid |-> [ p \in Cells(Rows, Cols) |-> 0 ],
        start |-> s ] :
      S \in SubsetsUpTo(InteriorWalls(Rows, Cols) \cup
                        BorderWalls(Rows, Cols), FairChanges),
      s \in Cells(Rows, Cols) } \cup
    { [ rows |-> Rows, cols |-> Cols, hasCells |-> FALSE,
        cells |-> NoCells,
        grid |-> [ p \in Cells(Rows, Cols) |-> IF p \in B THEN 1 ELSE 0 ],
        start |-> s ] :
      B \in SubsetsUpTo(Cells(Rows, Cols), FairChanges),
      s \in Cells(Rows, Cols) }

InitSolveFair ==
    /\ level \in FairLevels
    /\ gen = NoGen
    /\ InitSolver
    /\ InitOutside

\* the four calls of solve, each loop iteration taken as long as one is left
SpecSolveFair == InitSolveFair /\ [][NextSolve]_vars /\ WF_vars(NextSolve)

\* solve called on an invalid maze
InitInvalid ==
    /\ level \in InvalidLevels
    /\ gen = NoGen
    /\ InitSolver
    /\ InitOutside

SpecInvalid == InitInvalid /\ [][NextSolve]_vars

InitGen ==
    /\ \E width \in 2..MaxWidth, height \in 2..MaxHeight,
          difficulty \in Difficulties :
          gen = GenStart(width, height, difficulty)
    /\ level = NoLevel
    /\ InitSolver
    /\ InitOutside

NextGen ==
    \/ GenCarve
    \/ GenBacktrack
    \/ GenReturn

SpecGen == InitGen /\ [][NextGen]_vars

\* generateMaze called with a width or a height below 2
InitGenSmall ==
    /\ \E width \in 0..MaxSmallSide, height \in 0..MaxSmallSide,
          difficulty \in Difficulties :
          /\ width < 2 \/ height < 2
          /\ gen = GenStart(width, height, difficulty)
    /\ level = NoLevel
    /\ InitSolver
    /\ InitOutside

SpecGenSmall == InitGenSmall /\ [][NextGen]_vars

\* the widths and heights of the mazes that are generated and then solved
GenSolveSizes ==
    { wh \in (2..MaxArea) \X (2..MaxArea) : wh[1] * wh[2] <= MaxArea }

InitGenSolve ==
    /\ \E wh \in GenSolveSizes, difficulty \in Difficulties :
          gen = GenStart(wh[1], wh[2], difficulty)
    /\ level = NoLevel
    /\ InitSolver
    /\ InitOutside

\* App: solve(currentLevel, algorithm) on the level generateMaze returned
SolveGenerated ==
    /\ gen.pc = "returned"
    /\ NextSolve

NextGenSolve ==
    \/ GenCarve
    \/ GenBacktrack
    \/ GenReturn
    \/ SolveGenerated

SpecGenSolve == InitGenSolve /\ [][NextGenSolve]_vars

\* generateMaze runs on, for the same widths and heights: an iteration of
\* the carving loop that can be taken is taken
SpecGenFair == InitGenSolve /\ [][NextGen]_vars /\ WF_vars(NextGen)

\* Two calls of solve on one level.  Each call owns its locals; one call
\* runs at a time and the other waits at the point it has reached.
TwiceSize == << 2, 2 >>

TwiceLevels ==
    { [ rows |-> TwiceSize[1], cols |-> TwiceSize[2], hasCells |-> TRUE,
        cells |-> WallCells(TwiceSize[1], TwiceSize[2], S),
        grid |-> [ p \in Cells(TwiceSize[1], TwiceSize[2]) |-> 0 ],
        start |-> s ] :
      S \in SubsetsUpTo(InteriorWalls(TwiceSize[1], TwiceSize[2]) \cup
                        BorderWalls(TwiceSize[1], TwiceSize[2]),
                        MaxWallChanges - 1),
      s \in Cells(TwiceSize[1], TwiceSize[2]) } \cup
    { lv \in BinaryLevels :
        /\ lv.start = Pos(1, 1)
        /\ Cardinality({ p \in Cells(Rows, Cols) : lv.grid[p] = 1 }) <= 1 }

\* the locals of the running call
CallLocals ==
    [ alg |-> alg, queue |-> queue, openSet |-> openSet,
      visited |-> visited, parent |-> parent, gScore |-> gScore,
      fScore |-> fScore, distance |-> distance,
      visitedCells |-> visitedCells, detailedSteps |-> detailedSteps,
      stepNumber |-> stepNumber, callStack |-> callStack, sol |-> sol ]

\* the locals of a call that has not started
FreshLocals ==
    [ alg |-> "none", queue |-> << >>, openSet |-> << >>,
      visited |-> << >>, parent |-> << >>, gScore |-> << >>,
      fScore |-> << >>, distance |-> << >>, visitedCells |-> << >>,
      detailedSteps |-> << >>, stepNumber |-> 0, callStack |-> << >>,
      sol |-> [ a \in { Algorithms[i] : i \in 1..Len(Algorithms) } |->
                  NotRun ] ]

\* the calls gone wrong: stepNumber is one counter shared by the two calls
SwitchSharedStepNumber ==
    /\ suspended # NoOtherCall
    /\ suspended' = CallLocals
    /\ alg' = suspended.alg /\ queue' = suspended.queue
    /\ openSet' = suspended.openSet /\ visited' = suspended.visited
    /\ parent' = suspended.parent /\ gScore' = suspended.gScore
    /\ fScore' = suspended.fScore /\ distance' = suspended.distance
    /\ visitedCells' = suspended.visitedCells
    /\ detailedSteps' = suspended.detailedSteps
    /\ stepNumber' = stepNumber
    /\ callStack' = suspended.callStack /\ sol' = suspended.sol
    /\ UNCHANGED << level, gen, appVars >>

\* the running call waits and the waiting call runs on
Switch ==
    /\ suspended # NoOtherCall
    /\ suspended' = CallLocals
    /\ alg' = suspended.alg /\ queue' = suspended.queue
    /\ openSet' = suspended.openSet /\ visited' = suspended.visited
    /\ parent' = suspended.parent /\ gScore' = suspended.gScore
    /\ fScore' = suspended.fScore /\ distance' = suspended.distance
    /\ visitedCells' = suspended.visitedCells
    /\ detailedSteps' = suspended.detailedSteps
    /\ stepNumber' = suspended.stepNumber
    /\ callStack' = suspended.callStack /\ sol' = suspended.sol
    /\ UNCHANGED << level, gen, appVars >>

InitTwice ==
    /\ level \in TwiceLevels
    /\ gen = NoGen
    /\ InitSolver
    /\ suspended = FreshLocals
    /\ isVisualizing = FALSE /\ visualizationCancelled = FALSE
    /\ currentStep = 0 /\ showOptimalPath = FALSE /\ isPaused = FALSE
    /\ isStepMode = FALSE /\ visualizedCells = << >> /\ solution = Null
    /\ timers = << >> /\ clicks = 0

\* a step of the running call
SolveStep == NextSolve

NextTwice ==
    \/ SolveStep
    \/ Switch

SpecTwice == InitTwice /\ [][NextTwice]_vars

(***************************************************************************)
(* solve on a room with a detour: a closed 7 by 7 room with three interior *)
(* walls, one opening in the bottom border or none, any start.  A* reaches *)
(* some cells of such a room first by a longer route and then by a shorter *)
(* one.                                                                    *)
(***************************************************************************)
DetourSize == << 7, 7 >>

DetourWalls ==
    { << Pos(1, 4), "right" >>, << Pos(4, 3), "right" >>,
      << Pos(5, 3), "right" >> }

DetourOpenings ==
    { {} } \cup
    { { << Pos(DetourSize[1] - 1, c), "bottom" >> } :
        c \in 0..(DetourSize[2] - 1) }

DetourLevels ==
    { [ rows |-> DetourSize[1], cols |-> DetourSize[2], hasCells |-> TRUE,
        cells |-> WallCells(DetourSize[1], DetourSize[2],
                            DetourWalls \cup O),
        grid |-> [ p \in Cells(DetourSize[1], DetourSize[2]) |-> 0 ],
        start |-> s ] :
      O \in DetourOpenings,
      s \in Cells(DetourSize[1], DetourSize[2]) }

InitDetour ==
    /\ level \in DetourLevels
    /\ gen = NoGen
    /\ InitSolver
    /\ InitOutside

SpecDetour == InitDetour /\ [][NextSolve]_vars

(***************************************************************************)
(* App: the visualization of a solution (visualizeSolving,                 *)
(* resetVisualization, generateNewMaze, the step-mode controls, the two    *)
(* effects that reveal cells and drive step mode, and the timers).  Time   *)
(* is counted in units of 25 ms.  A handler and the effects of the render  *)
(* that follows it are one step.                                           *)
(***************************************************************************)
MaxClicks == 3     \* user inputs (clicks) in a run of the App
MaxVisited == 3    \* longest solution.visitedCells

LoopDelay == 1       \* setTimeout(resolve, 25)
IntervalDelay == 1   \* setInterval(..., 25)
ResetDelay == 2      \* setTimeout(..., 50) of resetVisualization
NewMazeDelay == 4    \* setTimeout(..., 100) of generateNewMaze
CompleteDelay == 20  \* setTimeout(..., 500) of logStep

\* a pending callback: left is the time until it is due; a loop timer is
\* the await of visualizeSolving's for loop at index i, n being the
\* solution.visitedCells.length the call captured (an interval timer holds
\* the length its handleStepChange captured).  asked and checks are not
\* state of the program: asked tells that stop, reset or a new maze was
\* requested while the loop was running, checks how many cancellation
\* checks the loop has passed since
Timer(kind, left, i, n) ==
    [ kind |-> kind, left |-> left, i |-> i, n |-> n, asked |-> FALSE,
      checks |-> 0 ]

\* the Solution solve returns where the search visits n cells in a line up
\* column 1 to the exit cell (0,1)
AppSolution(n) ==
    LET vc == [ k \in 1..n |-> Pos(n - k, 1) ]
    IN  Solution(vc, vc, "BFS",
          [ k \in 1..(n - 1) |->
              [ position |-> vc[k], stepNumber |-> k - 1,
                algorithmData |-> [ queueSize |-> 1, currentLevel |-> k - 1,
                                    neighborsAdded |-> 1 ] ] ])

AppSolutions == { AppSolution(n) : n \in 1..MaxVisited }

\* the React state of App as one value
AppState ==
    [ isVisualizing |-> isVisualizing, currentStep |-> currentStep,
      isPaused |-> isPaused, isStepMode |-> isStepMode,
      solution |-> solution, visualizedCells |-> visualizedCells,
      showOptimalPath |-> showOptimalPath, timers |-> timers ]

\* stop, reset or a new maze is requested: the loops running are told
AskLoops(ts) ==
    [ k \in 1..Len(ts) |->
        IF ts[k].kind = "loop" THEN [ ts[k] EXCEPT !.asked = TRUE ]
        ELSE ts[k] ]

\* useEffect(..., [currentStep, isVisualizing, solution]) on the state u of
\* the new render: the cells up to currentStep are revealed and logStep
\* schedules the completion when the step is the last one
RevealEffect(u, asked) ==
    IF << u.currentStep, u.isVisualizing, u.solution >>
          = << currentStep, isVisualizing, solution >>
    THEN u
    ELSE IF ~u.isVisualizing THEN u
    ELSE IF u.currentStep > 0
            /\ u.currentStep <= Len(u.solution.visitedCells)
    THEN [ u EXCEPT
             !.visualizedCells =
                 SubSeq(u.solution.visitedCells, 1, u.currentStep),
             !.timers =
                 IF u.currentStep - 1 = Len(u.solution.visitedCells) - 1
                 THEN Append(@, [ Timer("complete", CompleteDelay, 0, 0)
                                    EXCEPT !.asked = asked ])
                 ELSE @ ]
    ELSE IF u.currentStep = 0 THEN [ u EXCEPT !.visualizedCells = << >> ]
    ELSE u

\* useEffect(..., [isStepMode, isVisualizing, isPaused, currentStep,
\* solution]): the interval of the previous render is cleared; while step
\* mode plays a new one is set, or the play is paused at the last step
StepModeEffect(u) ==
    IF << u.isStepMode, u.isVisualizing, u.isPaused, u.currentStep,
          u.solution >>
          = << isStepMode, isVisualizing, isPaused, currentStep, solution >>
    THEN u
    ELSE LET cleared == SelectSeq(u.timers, LAMBDA t : t.kind # "interval")
         IN  IF u.isStepMode /\ u.isVisualizing /\ ~u.isPaused
             THEN IF u.currentStep >= Len(u.solution.visitedCells)
                  THEN [ u EXCEPT !.isPaused = TRUE, !.timers = cleared ]
                  ELSE [ u EXCEPT !.timers =
                           Append(cleared,
                                  Timer("interval", IntervalDelay, 0,
                                        Len(u.solution.visitedCells))) ]
             ELSE [ u EXCEPT !.timers = cleared ]

\* the state updates u of a handler are rendered and the effects run
Render(u, asked) ==
    LET v == StepModeEffect(RevealEffect(u, asked))
    IN  /\ isVisualizing' = v.isVisualizing
        /\ currentStep' = v.currentStep
        /\ isPaused' = v.isPaused
        /\ isStepMode' = v.isStepMode
        /\ solution' = v.solution
        /\ visualizedCells' = v.visualizedCells
        /\ showOptimalPath' = v.showOptimalPath
        /\ timers' = v.timers

\* the updater handleStepChange passes to setCurrentStep
handleStepChange(prev, delta, length) ==
    LET newStep == prev + delta
    IN  IF newStep < 0 THEN 0
        ELSE IF newStep >= length THEN prev
        ELSE newStep

outsideApp == << level, gen, solverVars, suspended >>

\* the user clicks Visualize Solve / Stop Visualization
ClickVisualize ==
    /\ clicks < MaxClicks
    /\ ~(isVisualizing /\ isStepMode /\ ~isPaused)
    /\ solution # Null
    /\ clicks' = clicks + 1
    /\ IF isVisualizing
       THEN /\ visualizationCancelled' = TRUE
            /\ Render([ AppState EXCEPT !.isVisualizing = FALSE,
                                        !.isPaused = FALSE,
                                        !.timers = AskLoops(timers) ], FALSE)
       ELSE /\ visualizationCancelled' = FALSE
            /\ IF isStepMode
               THEN Render([ AppState EXCEPT !.isVisualizing = TRUE,
                                             !.visualizedCells = << >>,
                                             !.showOptimalPath = FALSE,
                                             !.currentStep = 1,
                                             !.isPaused = TRUE ], FALSE)
               ELSE Render([ AppState EXCEPT
                               !.isVisualizing = TRUE,
                               !.visualizedCells = << >>,
                               !.showOptimalPath = FALSE,
                               !.currentStep = 0,
                               !.timers =
                                   Append(timers,
                                     Timer("loop", LoopDelay, 0,
                                           Len(solution.visitedCells))) ],
                           FALSE)
    /\ UNCHANGED outsideApp

\* the user clicks Reset
ClickReset ==
    /\ clicks < MaxClicks
    /\ clicks' = clicks + 1
    /\ visualizationCancelled' = TRUE
    /\ Render([ AppState EXCEPT
                  !.visualizedCells = << >>,
                  !.showOptimalPath = FALSE,
                  !.isVisualizing = FALSE,
                  !.currentStep = 0,
                  !.isPaused = FALSE,
                  !.timers = Append(AskLoops(timers),
                                    Timer("resetFlag", ResetDelay, 0, 0)) ],
              FALSE)
    /\ UNCHANGED outsideApp

\* the user clicks New Maze; the effect on currentLevel sets the solution
\* of the new level
ClickNewMaze ==
    /\ clicks < MaxClicks
    /\ clicks' = clicks + 1
    /\ visualizationCancelled' = TRUE
    /\ \E s \in AppSolutions :
          Render([ AppState EXCEPT
                     !.solution = s,
                     !.visualizedCells = << >>,
                     !.showOptimalPath = FALSE,
                     !.isVisualizing = FALSE,
                     !.timers = Append(AskLoops(timers),
                                       Timer("newMazeFlag", NewMazeDelay,
                                             0, 0)) ],
                 FALSE)
    /\ UNCHANGED outsideApp

\* the user ticks or clears Step-by-Step Mode
ToggleStepMode ==
    /\ clicks < MaxClicks
    /\ clicks' = clicks + 1
    /\ Render([ AppState EXCEPT !.isStepMode = ~isStepMode ], FALSE)
    /\ UNCHANGED << visualizationCancelled, outsideApp >>

\* the user clicks Play / Pause
handlePauseToggle ==
    /\ clicks < MaxClicks
    /\ isStepMode /\ isVisualizing
    /\ clicks' = clicks + 1
    /\ Render([ AppState EXCEPT !.isPaused = ~isPaused ], FALSE)
    /\ UNCHANGED << visualizationCancelled, outsideApp >>

\* the user clicks Prev
ClickPrev ==
    /\ clicks < MaxClicks
    /\ isStepMode /\ isVisualizing /\ currentStep > 0
    /\ solution # Null
    /\ clicks' = clicks + 1
    /\ Render([ AppState EXCEPT !.currentStep =
                  handleStepChange(currentStep, -1,
                                   Len(solution.visitedCells)) ], FALSE)
    /\ UNCHANGED << visualizationCancelled, outsideApp >>

\* the user clicks Next
ClickNext ==
    /\ clicks < MaxClicks
    /\ isStepMode /\ isVisualizing
    /\ solution # Null
    /\ currentStep < Len(solution.visitedCells) - 1
    /\ clicks' = clicks + 1
    /\ Render([ AppState EXCEPT !.currentStep =
                  handleStepChange(currentStep, 1,
                                   Len(solution.visitedCells)) ], FALSE)
    /\ UNCHANGED << visualizationCancelled, outsideApp >>

\* the await of a loop of visualizeSolving ends: setCurrentStep(i + 1), then
\* the next iteration checks the flag and awaits again, or the loop ends
LoopWakes ==
    /\ \E k \in 1..Len(timers) :
          LET t == timers[k]
              rest == splice(timers, k)
              i1 == t.i + 1
          IN  /\ t.kind = "loop" /\ t.left = 0
              /\ IF i1 < t.n
                 THEN IF visualizationCancelled
                      THEN Render([ AppState EXCEPT
                                      !.currentStep = i1,
                                      !.isVisualizing = FALSE,
                                      !.timers = rest ], t.asked)
                      ELSE Render([ AppState EXCEPT
                                      !.currentStep = i1,
                                      !.timers =
                                          Append(rest,
                                            [ t EXCEPT
                                                !.left = LoopDelay,
                                                !.i = i1,
                                                !.checks =
                                                    IF t.asked THEN @ + 1
                                                    ELSE 0 ]) ], t.asked)
                 ELSE Render([ AppState EXCEPT !.currentStep = i1,
                                               !.timers = rest ], t.asked)
    /\ UNCHANGED << visualizationCancelled, clicks, outsideApp >>

\* the timeout of resetVisualization: the flag is cleared
ResetFlagFires ==
    /\ \E k \in 1..Len(timers) :
          /\ timers[k].kind = "resetFlag" /\ timers[k].left = 0
          /\ timers' = splice(timers, k)
    /\ visualizationCancelled' = FALSE
    /\ UNCHANGED << isVisualizing, currentStep, showOptimalPath, isPaused,
                    isStepMode, visualizedCells, solution, clicks,
                    outsideApp >>

\* the timeout of generateNewMaze: the flag is cleared
NewMazeFlagFires ==
    /\ \E k \in 1..Len(timers) :
          /\ timers[k].kind = "newMazeFlag" /\ timers[k].left = 0
          /\ timers' = splice(timers, k)
    /\ visualizationCancelled' = FALSE
    /\ UNCHANGED << isVisualizing, currentStep, showOptimalPath, isPaused,
                    isStepMode, visualizedCells, solution, clicks,
                    outsideApp >>

\* the timeout of logStep: the optimal path is shown unless cancelled
CompleteFires ==
    /\ \E k \in 1..Len(timers) :
          /\ timers[k].kind = "complete" /\ timers[k].left = 0
          /\ Render([ AppState EXCEPT
                        !.showOptimalPath =
                            IF ~visualizationCancelled THEN TRUE ELSE @,
                        !.isVisualizing = FALSE,
                        !.isPaused = TRUE,
                        !.timers = splice(timers, k) ], FALSE)
    /\ UNCHANGED << visualizationCancelled, clicks, outsideApp >>

\* the interval of step mode: handleStepChange(1)
IntervalFires ==
    /\ \E k \in 1..Len(timers) :
          /\ timers[k].kind = "interval" /\ timers[k].left = 0
          /\ Render([ AppState EXCEPT
                        !.currentStep =
                            handleStepChange(currentStep, 1, timers[k].n),
                        !.timers =
                            [ timers EXCEPT ![k].left = IntervalDelay ] ],
                    FALSE)
    /\ UNCHANGED << visualizationCancelled, clicks, outsideApp >>

\* 25 ms pass, no callback being due
Tick ==
    /\ timers # << >>
    /\ \A k \in 1..Len(timers) : timers[k].left > 0
    /\ timers' = [ k \in 1..Len(timers) |->
                     [ timers[k] EXCEPT !.left = @ - 1 ] ]
    /\ UNCHANGED << isVisualizing, visualizationCancelled, currentStep,
                    showOptimalPath, isPaused, isStepMode, visualizedCells,
                    solution, clicks, outsideApp >>

\* App after its first render: the solution of the level generated on mount
InitApp ==
    /\ level = NoLevel
    /\ gen = NoGen
    /\ InitSolver
    /\ suspended = NoOtherCall
    /\ isVisualizing = FALSE /\ visualizationCancelled = FALSE
    /\ currentStep = 0 /\ showOptimalPath = FALSE /\ isPaused = FALSE
    /\ isStepMode = FALSE /\ visualizedCells = << >>
    /\ solution \in AppSolutions
    /\ timers = << >> /\ clicks = 0

UserInput ==
    \/ ClickVisualize
    \/ ClickReset
    \/ ClickNewMaze
    \/ ToggleStepMode
    \/ handlePauseToggle
    \/ ClickPrev
    \/ ClickNext

TimerFires ==
    \/ LoopWakes
    \/ ResetFlagFires
    \/ NewMazeFlagFires
    \/ CompleteFires
    \/ IntervalFires

NextApp ==
    \/ UserInput
    \/ TimerFires
    \/ Tick

SpecApp == InitApp /\ [][NextApp]_vars

\* time passes and a callback that is due is run
SpecAppFair == SpecApp /\ WF_vars(Tick) /\ WF_vars(TimerFires)

(***************************************************************************)
(* Notions the properties are stated in.                                   *)
(***************************************************************************)
AllAlgorithms == { Algorithms[i] : i \in 1..Len(Algorithms) }

LevelCells(lv) == Cells(lv.rows, lv.cols)

Adjacent4(p, q) ==
    \/ (p.r = q.r /\ (p.c - q.c = 1 \/ q.c - p.c = 1))
    \/ (p.c = q.c /\ (p.r - q.r = 1 \/ q.r - p.r = 1))

\* the wall flag of cell p of the matrix cells that faces the adjacent cell q
WallFacing(cells, p, q) ==
    IF q.r = p.r - 1 THEN cells[p].walls.top
    ELSE IF q.r = p.r + 1 THEN cells[p].walls.bottom
    ELSE IF q.c = p.c - 1 THEN cells[p].walls.left
    ELSE cells[p].walls.right

InGrid(p, rows, cols) ==
    /\ 0 <= p.r /\ p.r <= rows - 1
    /\ 0 <= p.c /\ p.c <= cols - 1

\* the four positions one step up, down, left and right of p
Around(p) ==
    { Pos(p.r - 1, p.c), Pos(p.r + 1, p.c), Pos(p.r, p.c - 1),
      Pos(p.r, p.c + 1) }

\* a single 4-connected move from p to q that the Adjacency Oracle permits
PermittedMove(lv, p, q) ==
    /\ InGrid(p, lv.rows, lv.cols) /\ InGrid(q, lv.rows, lv.cols)
    /\ Adjacent4(p, q)
    /\ IF lv.hasCells THEN ~WallFacing(lv.cells, p, q) ELSE lv.grid[q] = 0

\* the exit predicate: a border cell with, in wall mode, an outward opening
ExitCell(lv, p) ==
    /\ InGrid(p, lv.rows, lv.cols)
    /\ IF lv.hasCells
       THEN \/ (p.r = 0 /\ ~lv.cells[p].walls.top)
            \/ (p.r = lv.rows - 1 /\ ~lv.cells[p].walls.bottom)
            \/ (p.c = 0 /\ ~lv.cells[p].walls.left)
            \/ (p.c = lv.cols - 1 /\ ~lv.cells[p].walls.right)
       ELSE p.r = 0 \/ p.r = lv.rows - 1 \/ p.c = 0 \/ p.c = lv.cols - 1

Successors(lv, F) ==
    UNION { { q \in Around(p) : PermittedMove(lv, p, q) } : p \in F }

\* the cells reachable from the cells of seen, frontier being the newest
RECURSIVE ReachableFrom(_, _, _)
ReachableFrom(lv, frontier, seen) ==
    IF frontier = {} THEN seen
    ELSE LET new == Successors(lv, frontier) \ seen
         IN  ReachableFrom(lv, new, seen \cup new)

Reachable(lv) == ReachableFrom(lv, {lv.start}, {lv.start})

ExitReachable(lv) == \E p \in Reachable(lv) : ExitCell(lv, p)

\* least d such that an exit cell is d permitted moves away from the cells
\* first reached after d0 moves (frontier); -1 when there is none
RECURSIVE ExitDistanceFrom(_, _, _, _)
ExitDistanceFrom(lv, frontier, seen, d0) ==
    IF frontier = {} THEN -1
    ELSE IF \E p \in frontier : ExitCell(lv, p) THEN d0
    ELSE LET new == Successors(lv, frontier) \ seen
         IN  ExitDistanceFrom(lv, new, seen \cup new, d0 + 1)

MinExitDistance(lv) == ExitDistanceFrom(lv, {lv.start}, {lv.start}, 0)

\* the least number of permitted moves from the cells of frontier, d moves
\* from start, to every cell; Infinity for a cell out of reach
RECURSIVE StartDistancesFrom(_, _, _, _)
StartDistancesFrom(lv, frontier, seen, d) ==
    IF frontier = {} THEN [ p \in LevelCells(lv) |-> Infinity ]
    ELSE LET new == Successors(lv, frontier) \ seen
             rest == StartDistancesFrom(lv, new, seen \cup new, d + 1)
         IN  [ p \in LevelCells(lv) |->
                 IF p \in frontier THEN d ELSE rest[p] ]

StartDistances(lv) == StartDistancesFrom(lv, {lv.start}, {lv.start}, 0)

AllReturned == \A a \in AllAlgorithms : Returned(a)

\* the list holds no position twice
NoDuplicates(list) ==
    \A i, j \in 1..Len(list) : list[i] = list[j] => i = j

(***************************************************************************)
(* Properties of the solvers (SpecSolve).  The value solve returned for an  *)
(* algorithm stays in sol; the properties are read off once solve has      *)
(* returned for the four algorithms (AllReturned).                         *)
(***************************************************************************)

\* C1: whenever solveBFS returns a Solution, its distance is the minimum
\* number of permitted 4-connected moves from level.start to an exit cell.
C1_BFSDistanceMinimal ==
    (AllReturned /\ Found("bfs"))
    => sol["bfs"].distance = MinExitDistance(level)

\* a BFS solution two or more moves long on a level where depth-first
\* search found a longer way out
C1_Witness ==
    /\ Found("bfs") /\ Found("dfs")
    /\ sol["bfs"].distance >= 2
    /\ sol["dfs"].distance > sol["bfs"].distance

\* C2: on every solvable level BFS, Dijkstra and A* all return a Solution
\* and the three distances are equal.
C2_DistancesAgree ==
    (AllReturned /\ ExitReachable(level))
    => /\ Found("bfs") /\ Found("astar") /\ Found("dijkstra")
       /\ sol["astar"].distance = sol["bfs"].distance
       /\ sol["dijkstra"].distance = sol["bfs"].distance

\* the three have returned a distance of two or more, A* having expanded
\* the cells in another order than Dijkstra
C2_Witness ==
    /\ Found("bfs") /\ Found("astar") /\ Found("dijkstra")
    /\ sol["bfs"].distance >= 2
    /\ sol["astar"].visitedCells # sol["dijkstra"].visitedCells

PathValid(lv, s) ==
    /\ Len(s.path) >= 1
    /\ s.path[1] = lv.start
    /\ ExitCell(lv, s.path[Len(s.path)])
    /\ \A i \in 1..(Len(s.path) - 1) :
          PermittedMove(lv, s.path[i], s.path[i + 1])
    /\ s.distance = Len(s.path) - 1

\* C3: every returned Solution has a path that starts at level.start, ends
\* on an exit cell, moves by permitted 4-connected steps, and has
\* distance = path.length - 1.
C3_PathValid ==
    AllReturned
    => \A a \in AllAlgorithms : Found(a) => PathValid(level, sol[a])

\* every algorithm returned a path, one of them four or more cells long
C3_Witness ==
    /\ \A a \in AllAlgorithms : Found(a)
    /\ \E a \in AllAlgorithms : Len(sol[a].path) >= 4

\* C4: solve returns null exactly when no cell reachable from start is an
\* exit cell, for each of the four algorithms.
C4_NullIffNoExit ==
    AllReturned
    => LET solvable == ExitReachable(level)
       IN  \A a \in AllAlgorithms : (sol[a] = Null) <=> ~solvable

\* a level that has exit cells, none of which start can reach: the four
\* solvers returned null
C4_Witness ==
    /\ \E p \in LevelCells(level) : ExitCell(level, p)
    /\ \A a \in AllAlgorithms : sol[a] = Null

\* C5: when level.start is an exit cell every algorithm returns distance 0,
\* path = [start] and visitedCells = [start].
C5_StartIsExit ==
    (AllReturned /\ ExitCell(level, level.start))
    => \A a \in AllAlgorithms :
          /\ Found(a)
          /\ sol[a].distance = 0
          /\ sol[a].path = << level.start >>
          /\ sol[a].visitedCells = << level.start >>

\* the four solvers have returned on a wall level whose start cell opens
\* outward through its right wall only
C5_Witness ==
    /\ AllReturned
    /\ level.hasCells
    /\ level.start.c = level.cols - 1
    /\ level.start.r # 0 /\ level.start.r # level.rows - 1
    /\ ExitCell(level, level.start)

\* C6: DFS returns a Solution exactly when BFS does, and its distance is
\* then at least the distance BFS returns.
C6_DFSNotShorter ==
    AllReturned
    => /\ Found("dfs") <=> Found("bfs")
       /\ Found("dfs") => sol["dfs"].distance >= sol["bfs"].distance

\* DFS returned a strictly longer path than BFS
C6_Witness ==
    /\ Found("bfs") /\ Found("dfs")
    /\ sol["dfs"].distance > sol["bfs"].distance + 1

\* C7: the returned detailedSteps has one entry per entry of visitedCells,
\* in the same order.
C7_StepsPairVisited ==
    AllReturned
    => \A a \in AllAlgorithms :
          Found(a)
          => /\ Len(sol[a].detailedSteps) = Len(sol[a].visitedCells)
             /\ \A i \in 1..Len(sol[a].detailedSteps) :
                   sol[a].detailedSteps[i].position = sol[a].visitedCells[i]

\* C15: in binary mode (level.cells absent) a solver succeeds only at a
\* border cell whose grid value is 0: no returned path ends on a cell with
\* grid value 1, level.start included.
C15_BinaryExitPassable ==
    (AllReturned /\ ~level.hasCells)
    => \A a \in AllAlgorithms :
          Found(a) => level.grid[sol[a].path[Len(sol[a].path)]] = 0

\* the least number of permitted moves from cell p to an exit cell, -1 when
\* no exit cell is reachable from p
ExitDistanceOf(lv, p) == ExitDistanceFrom(lv, {p}, {p}, 0)

\* the cells from which one permitted move leads into F
Predecessors(lv, F) ==
    UNION { { q \in Around(p) : PermittedMove(lv, q, p) } : p \in F }

\* frontier holds the cells whose least number of permitted moves to an exit
\* cell is d: the heuristic exceeds that number at none of them, nor at
\* any cell farther from the exit cells
RECURSIVE AdmissibleFrom(_, _, _, _)
AdmissibleFrom(lv, frontier, seen, d) ==
    IF frontier = {} THEN TRUE
    ELSE /\ \A p \in frontier : heuristic(p, lv.rows, lv.cols) <= d
         /\ LET new == Predecessors(lv, frontier) \ seen
            IN  AdmissibleFrom(lv, new, seen \cup new, d + 1)

\* C16: the heuristic is admissible and consistent on every level: it is 0
\* at every exit cell, differs by at most 1 between 4-adjacent cells, and at
\* no cell exceeds the least number of permitted moves to an exit cell.
C16_HeuristicAdmissible ==
    AllReturned
    => LET exits == { p \in LevelCells(level) : ExitCell(level, p) }
       IN  /\ \A p \in exits : heuristic(p, level.rows, level.cols) = 0
           /\ \A p \in LevelCells(level) :
                 \A q \in { n \in Around(p) :
                              InGrid(n, level.rows, level.cols) } :
                    LET h == heuristic(p, level.rows, level.cols)
                        hq == heuristic(q, level.rows, level.cols)
                    IN  h - hq <= 1 /\ hq - h <= 1
           /\ AdmissibleFrom(level, exits, exits, 0)

\* A* has returned on a wall level whose centre cell, of heuristic 1, is
\* three moves or more from the nearest exit cell
C16_Witness ==
    /\ AllReturned
    /\ level.hasCells
    /\ Found("astar")
    /\ heuristic(Pos(1, 1), level.rows, level.cols) = 1
    /\ ExitDistanceOf(level, Pos(1, 1)) >= 3

\* the cell the step just taken by algorithm a has expanded
Expanded(a) ==
    IF alg' = a THEN visitedCells'[Len(visitedCells')]
    ELSE sol'[a].visitedCells[Len(sol'[a].visitedCells)]

\* cur is the earliest element of list among those of minimum score
FirstMinimum(list, score, cur) ==
    \E idx \in 1..Len(list) :
        /\ list[idx] = cur
        /\ \A j \in 1..Len(list) :
              /\ score[list[j]] >= score[cur]
              /\ j < idx => score[list[j]] > score[cur]

\* C17: every iteration of A* (of Dijkstra) expands the earliest element,
\* in list order, among the members of openSet (of queue) with the least
\* fScore (distance): a tie never goes to a later element.
C17_TieBreakFirst ==
    [][ /\ (alg = "astar" /\ openSet # <<>>)
           => FirstMinimum(openSet, fScore, Expanded("astar"))
        /\ (alg = "dijkstra" /\ queue # <<>>)
           => FirstMinimum(queue, distance, Expanded("dijkstra")) ]_vars

\* A* has expanded a cell and its open list now holds two cells or more of
\* the same least fScore
C17_Witness ==
    /\ alg = "astar"
    /\ Len(visitedCells) >= 1
    /\ \E i \in 1..Len(openSet), j \in 1..Len(openSet) :
          /\ i < j
          /\ fScore[openSet[i]] = fScore[openSet[j]]
          /\ \A k \in 1..Len(openSet) :
                fScore[openSet[k]] >= fScore[openSet[i]]

\* the cells A* has discovered so far: the start, the members of openSet
\* and the cells expanded
AStarDiscovered ==
    { p \in DOMAIN gScore :
        p = level.start \/ some(openSet, p) \/ visited[p] }

\* g, h and f at cell p as the claim relates them: an undiscovered cell holds
\* Infinity twice, a discovered one a finite edge count g and f = g + h
ScoresConsistent(p, discovered, g, h, f) ==
    IF discovered
    THEN /\ g >= 0 /\ g < Infinity
         /\ f = g + h
    ELSE g = Infinity /\ f = Infinity

AStarScoresConsistent ==
    /\ alg = "astar"
       => /\ gScore[level.start] = 0
          /\ \A p \in DOMAIN gScore :
                /\ ScoresConsistent(p, p \in AStarDiscovered, gScore[p],
                       heuristic(p, level.rows, level.cols), fScore[p])
                /\ (p \in AStarDiscovered /\ p # level.start)
                   => /\ parent[p] \in AStarDiscovered
                      /\ gScore[p] = gScore[parent[p]] + 1
    /\ (alg = "none" /\ Found("astar"))
       => LET scores == sol["astar"].aStarScores
          IN  /\ scores.gScores[level.start] = 0
              /\ \A p \in DOMAIN scores.gScores :
                    /\ scores.hScores[p]
                          = heuristic(p, level.rows, level.cols)
                    /\ ScoresConsistent(p, scores.gScores[p] # Infinity,
                           scores.gScores[p], scores.hScores[p],
                           scores.fScores[p])
              /\ \A k \in 1..Len(sol["astar"].visitedCells) :
                    scores.gScores[sol["astar"].visitedCells[k]] # Infinity

\* a step of A* changes the gScore of a cell only to a smaller value
AStarGScoreDecreases ==
    (alg = "astar" /\ alg' = "astar")
    => \A p \in DOMAIN gScore :
          gScore'[p] # gScore[p] => gScore'[p] < gScore[p]

IndexIn(cells, p) ==
    IF \E i \in 1..Len(cells) : cells[i] = p
    THEN CHOOSE i \in 1..Len(cells) :
            cells[i] = p /\ \A j \in 1..(i - 1) : cells[j] # p
    ELSE 0

\* C19: in the step trace of DFS the isBacktracking flag of an entry is true
\* exactly when the cell it records is not 4-adjacent to the cell visited
\* immediately before it in visitedCells order.
C19_BacktrackingFlag ==
    (AllReturned /\ Found("dfs"))
    => \A k \in 1..Len(sol["dfs"].detailedSteps) :
          LET step == sol["dfs"].detailedSteps[k]
              vc == sol["dfs"].visitedCells
              i == IndexIn(vc, step.position)
          IN  step.algorithmData.isBacktracking
                 <=> (i > 1 /\ ~Adjacent4(vc[i - 1], vc[i]))

\* the neighbour order of the claim: up, down, left, right
UpDownLeftRight ==
    << Pos(-1, 0), Pos(1, 0), Pos(0, -1), Pos(0, 1) >>

Toward(pos, i) ==
    Pos(pos.r + UpDownLeftRight[i].r, pos.c + UpDownLeftRight[i].c)

\* direction i leads from pos to a cell in bounds, permitted and unvisited
OpenDirection(pos, i) ==
    /\ InGrid(Toward(pos, i), level.rows, level.cols)
    /\ PermittedMove(level, pos, Toward(pos, i))
    /\ ~visited[Toward(pos, i)]

\* visitedCells of the DFS call after the step just taken
DFSVisitedAfter ==
    IF alg' = "dfs" THEN visitedCells'
    ELSE IF sol'["dfs"].status = "solution" THEN sol'["dfs"].visitedCells
    ELSE visitedCells

\* a step of the innermost dfs(pos): it enters the neighbour in the first
\* open direction, making pos its parent, or returns when none is open;
\* the parent of a cell once entered never changes
DFSStepInOrder ==
    (alg = "dfs" /\ callStack # <<>>)
    => LET pos == callStack[Len(callStack)].pos
           after == DFSVisitedAfter
       IN  /\ IF \E i \in 1..4 : OpenDirection(pos, i)
              THEN LET first == CHOOSE i \in 1..4 :
                                  /\ OpenDirection(pos, i)
                                  /\ \A j \in 1..(i - 1) :
                                        ~OpenDirection(pos, j)
                   IN  /\ after = Append(visitedCells, Toward(pos, first))
                       /\ alg' = "dfs"
                          => /\ parent'[Toward(pos, first)] = pos
                             /\ Len(callStack') = Len(callStack) + 1
              ELSE /\ after = visitedCells
                   /\ alg' = "dfs"
                      => callStack'
                            = SubSeq(callStack, 1, Len(callStack) - 1)
           /\ alg' = "dfs"
              => \A p \in DOMAIN parent :
                    parent[p] # NoPos => parent'[p] = parent[p]

\* the active calls of dfs are the innermost cell and its ancestors, and
\* visitedCells lists the cells marked visited, each once
DFSStackIsParentChain ==
    (alg = "dfs" /\ callStack # <<>>)
    => LET entered == { visitedCells[i] : i \in 1..Len(visitedCells) }
       IN  /\ callStack[1].pos = level.start
           /\ parent[level.start] = NoPos
           /\ \A k \in 2..Len(callStack) :
                 parent[callStack[k].pos] = callStack[k - 1].pos
           /\ Cardinality(entered) = Len(visitedCells)
           /\ { p \in DOMAIN visited : visited[p] } = entered

\* C20: visitedCells of DFS is the preorder of a depth-first traversal with
\* neighbour order up, down, left, right: from each cell the search enters
\* the first direction whose neighbour is in bounds, permitted and not yet
\* visited, explores it fully before the next direction, and the parent of
\* a cell is the cell from which it was first entered.
C20_DFSPreorder ==
    /\ []DFSStackIsParentChain
    /\ [][DFSStepInOrder]_vars

\* DFS is three calls deep after having returned from a dead end: a cell
\* visited earlier lies off the chain of active calls
C20_Witness ==
    /\ alg = "dfs"
    /\ Len(callStack) >= 3
    /\ Len(visitedCells) > Len(callStack)
    /\ Len(detailedSteps) >= 1

\* what solve returned for a and for b is the same exploration and the same
\* route: both null, both thrown, or Solutions of equal visitedCells and path
SameExploration(a, b) ==
    /\ sol[a].status = sol[b].status
    /\ Found(a) => /\ sol[a].visitedCells = sol[b].visitedCells
                   /\ sol[a].path = sol[b].path

\* the cell solveDijkstra takes from its queue is the head of the queue
DijkstraTakesHead ==
    (alg = "dijkstra" /\ Len(queue) > 0) =>
        MinIndex(queue, distance, 2, 1) = 1

\* an iteration of solveDijkstra writes a distance only where none was
\* recorded: the distance of a cell of the queue is never written again
DijkstraRelaxesOnce ==
    (alg = "dijkstra" /\ alg' = "dijkstra") =>
        \A p \in DOMAIN distance :
            distance'[p] # distance[p] => distance[p] = Infinity

\* C24: on every level solve(level, 'dijkstra') and solve(level, 'bfs')
\* return identical visitedCells sequences and identical paths; the member
\* of the queue of least distance is always its head, and no cell of the
\* queue is relaxed a second time.
C24_DijkstraExploresAsBFS ==
    /\ []((Returned("bfs") /\ Returned("dijkstra")) =>
              SameExploration("dijkstra", "bfs"))
    /\ []DijkstraTakesHead
    /\ [][DijkstraRelaxesOnce]_vars

\* both found a route of three or more moves after six or more expansions,
\* on a level where some cell can be entered from two different cells
C24_Witness ==
    /\ Found("bfs") /\ Found("dijkstra")
    /\ sol["dijkstra"].distance >= 3
    /\ Len(sol["dijkstra"].visitedCells) >= 6
    /\ \E p, q \in LevelCells(level) :
          /\ p # q
          /\ \E n \in LevelCells(level) :
                PermittedMove(level, p, n) /\ PermittedMove(level, q, n)

\* vc holds no position twice, and only cells of the grid that permitted
\* moves reach from start; so it is no longer than the grid has cells
VisitedSound(vc) ==
    /\ NoDuplicates(vc)
    /\ Len(vc) <= level.rows * level.cols
    /\ LET R == Reachable(level)
       IN  \A k \in 1..Len(vc) :
               /\ InGrid(vc[k], level.rows, level.cols)
               /\ vc[k] \in R

VisitedCellsSound ==
    /\ alg # "none" => VisitedSound(visitedCells)
    /\ \A a \in AllAlgorithms : Found(a) => VisitedSound(sol[a].visitedCells)

\* C27: for each of the four algorithms visitedCells contains no position
\* twice and every position in it is in bounds and reachable from start by
\* permitted moves; every solver performs at most rows*cols expansions and
\* terminates.
C27_VisitedOnceAndTerminates ==
    /\ []VisitedCellsSound
    /\ <>AllReturned

\* the four calls have returned, each with a route found after the expansion
\* of six cells or more
C27_Witness ==
    /\ AllReturned
    /\ \A a \in AllAlgorithms :
          Found(a) /\ Len(sol[a].visitedCells) >= 6

\* steps is, position by position, a prefix of vc; the stepNumber of an
\* entry is its index; the field key of its algorithmData is the least
\* number of moves from start to its cell and never falls along steps
StepsFollowVisited(steps, vc, key) ==
    /\ Len(steps) <= Len(vc)
    /\ LET D == StartDistances(level)
       IN  \A k \in 1..Len(steps) :
               /\ steps[k].position = vc[k]
               /\ steps[k].stepNumber = k - 1
               /\ steps[k].algorithmData[key] = D[vc[k]]
               /\ k > 1 => steps[k - 1].algorithmData[key] <=
                           steps[k].algorithmData[key]

\* during the two searches, and in the Solutions they returned (read off
\* once the four calls have returned); a returned Solution has an entry for
\* every visited cell but the exit cell
StepsOfBFSAndDijkstra ==
    /\ alg = "bfs" =>
          StepsFollowVisited(detailedSteps, visitedCells, "currentLevel")
    /\ alg = "dijkstra" =>
          StepsFollowVisited(detailedSteps, visitedCells, "currentDistance")
    /\ (AllReturned /\ Found("bfs")) =>
          /\ StepsFollowVisited(sol["bfs"].detailedSteps,
                                sol["bfs"].visitedCells, "currentLevel")
          /\ Len(sol["bfs"].detailedSteps) =
                Len(sol["bfs"].visitedCells) - 1
    /\ (AllReturned /\ Found("dijkstra")) =>
          /\ StepsFollowVisited(sol["dijkstra"].detailedSteps,
                                sol["dijkstra"].visitedCells,
                                "currentDistance")
          /\ Len(sol["dijkstra"].detailedSteps) =
                Len(sol["dijkstra"].visitedCells) - 1

WallsSymmetric(cells, width, height) ==
    /\ \A r \in 0..(height - 2), c \in 0..(width - 1) :
          cells[Pos(r, c)].walls.bottom = cells[Pos(r + 1, c)].walls.top
    /\ \A r \in 0..(height - 1), c \in 0..(width - 2) :
          cells[Pos(r, c)].walls.right = cells[Pos(r, c + 1)].walls.left

\* the outward-facing walls of the border cells that are cleared in cells
OutwardOpenings(cells, width, height) ==
    { w \in BorderWalls(height, width) : ~cells[w[1]].walls[w[2]] }

CarvedPassages(cells, width, height) ==
    { w \in InteriorWalls(height, width) : ~cells[w[1]].walls[w[2]] }

\* C8: in every state of the carving loop and in the returned level the
\* walls are symmetric: between two 4-adjacent cells both flags are equal.
C8_WallsSymmetric ==
    IF gen.pc = "returned"
    THEN WallsSymmetric(level.cells, level.cols, level.rows)
    ELSE WallsSymmetric(gen.cells, gen.width, gen.height)

\* the carving loop is under way with three passages carved or more
C8_Witness ==
    /\ gen.pc = "carving"
    /\ Len(gen.stack) > 0
    /\ Cardinality(CarvedPassages(gen.cells, gen.width, gen.height)) >= 3

\* C9: carving never clears an outward-facing border wall, and in the
\* returned level the top wall of (0,1) is the only outward opening and
\* (0,1) the only exit cell.
C9_SingleExit ==
    /\ gen.pc = "carving"
       => OutwardOpenings(gen.cells, gen.width, gen.height) = {}
    /\ gen.pc = "returned"
       => /\ OutwardOpenings(level.cells, level.cols, level.rows)
               = { << Pos(0, 1), "top" >> }
          /\ { p \in LevelCells(level) : ExitCell(level, p) } = { Pos(0, 1) }

\* a 2 by 2 level has been returned: its exit cell (0,1) is a corner cell,
\* whose top wall is cleared and whose right wall stands
C9_Witness ==
    /\ gen.pc = "returned"
    /\ level.cols = 2
    /\ level.rows = 2
    /\ ~level.cells[Pos(0, 1)].walls.top
    /\ level.cells[Pos(0, 1)].walls.right

\* C10: in every returned level every cell is visited, the binary grid is
\* all 0 and every cell is reachable from level.start by permitted moves.
C10_AllCellsReachable ==
    gen.pc = "returned"
    => /\ \A p \in LevelCells(level) :
             level.cells[p].visited /\ level.grid[p] = 0
       /\ Reachable(level) = LevelCells(level)

\* a hard 3 by 4 level has been returned, its start in the bottom row
C10_Witness ==
    /\ gen.pc = "returned"
    /\ gen.difficulty = "hard"
    /\ level.cols = 3 /\ level.rows = 4
    /\ level.start.r = 3

\* C14: the start of a returned level is an in-bounds visited cell; for
\* difficulty easy it lies in the top half (start.r < height / 2) and for
\* hard in the bottom half (start.r >= height / 2).
C14_StartByDifficulty ==
    gen.pc = "returned"
    => /\ InGrid(level.start, gen.height, gen.width)
       /\ level.cells[level.start].visited
       /\ gen.difficulty = "easy" => 2 * level.start.r < gen.height
       /\ gen.difficulty = "hard" => 2 * level.start.r >= gen.height

\* an easy level of three rows has been returned with its start in the
\* middle row, the last row of the top half
C14_Witness ==
    /\ gen.pc = "returned"
    /\ gen.difficulty = "easy"
    /\ gen.height = 3
    /\ level.start.r = 1

\* the cells of the matrix not yet marked visited
Unvisited(g) == { p \in Cells(g.height, g.width) : ~g.cells[p].visited }

\* iterations the carving loop still has to run: two for a cell not yet
\* visited (its push and its pop), one for a cell on the stack (its pop)
IterationsLeft(g) == 2 * Cardinality(Unvisited(g)) + Len(g.stack)

\* an iteration of the carving loop pushes an unvisited in-bounds 4-neighbour
\* of the top of the stack, marking it visited, or pops the top; a visited
\* flag is never cleared
CarvingIteration ==
    (gen.pc = "carving" /\ gen'.pc = "carving")
    => LET top == gen.stack[Len(gen.stack)]
       IN  /\ \/ /\ Len(gen'.stack) = Len(gen.stack) + 1
                 /\ SubSeq(gen'.stack, 1, Len(gen.stack)) = gen.stack
                 /\ LET next == gen'.stack[Len(gen'.stack)]
                    IN  /\ InGrid(next, gen.height, gen.width)
                        /\ Adjacent4(top, next)
                        /\ ~gen.cells[next].visited
                        /\ gen'.cells[next].visited
                        /\ Unvisited(gen') = Unvisited(gen) \ { next }
              \/ /\ gen'.stack = SubSeq(gen.stack, 1, Len(gen.stack) - 1)
                 /\ Unvisited(gen') = Unvisited(gen)
           /\ IterationsLeft(gen') = IterationsLeft(gen) - 1

\* the cells on the stack are visited, none is on it twice, and the loop
\* ends only when every cell has been visited and popped
StackCellsOnce ==
    /\ gen.pc = "carving"
       => /\ \A i \in 1..Len(gen.stack) : gen.cells[gen.stack[i]].visited
          /\ \A i \in 1..Len(gen.stack), j \in 1..Len(gen.stack) :
                gen.stack[i] = gen.stack[j] => i = j
    /\ gen.pc = "returned"
       => gen.stack = << >> /\ IterationsLeft(gen) = 0

\* C22: for any width, height >= 2 and any random choices the carving loop
\* of generateMaze terminates with an empty stack; every cell is pushed
\* exactly once, when first marked visited, and popped exactly once; each
\* iteration pushes an unvisited in-bounds 4-neighbour of the stack top or
\* pops.
C22_CarvingTerminates ==
    /\ <>(gen.pc = "returned" /\ gen.stack = << >>)
    /\ []StackCellsOnce
    /\ [][CarvingIteration]_vars

\* the loop has come back to the seed cell alone on the stack of a 3 by 4
\* maze with every cell visited: one pop is left
C22_Witness ==
    /\ gen.pc = "carving"
    /\ gen.width = 3 /\ gen.height = 4
    /\ Len(gen.stack) = 1
    /\ Unvisited(gen) = {}

\* the cells p and q are 4-adjacent and the wall pair between them is
\* cleared, on the side of p and on the side of q
Joined(cells, p, q) ==
    /\ Adjacent4(p, q)
    /\ ~WallFacing(cells, p, q)
    /\ ~WallFacing(cells, q, p)

\* the cell on the other side of the interior wall w
Beyond(w) ==
    IF w[2] = "bottom" THEN Pos(w[1].r + 1, w[1].c)
    ELSE Pos(w[1].r, w[1].c + 1)

\* the internal wall pairs cleared in cells
ClearedPairs(cells, width, height) ==
    { w \in InteriorWalls(height, width) : Joined(cells, w[1], Beyond(w)) }

\* the cells that the wall pairs of P connect to the cells of seen, frontier
\* being the newest
RECURSIVE JoinedFrom(_, _, _)
JoinedFrom(P, frontier, seen) ==
    IF frontier = {} THEN seen
    ELSE LET new == ({ Beyond(w) : w \in { x \in P : x[1] \in frontier } }
                     \cup { w[1] : w \in { x \in P : Beyond(x) \in frontier } })
                    \ seen
         IN  JoinedFrom(P, new, seen \cup new)

\* the cleared wall pairs form a tree on the visited cells: they connect
\* the seed cell to exactly the visited cells and number one less than these
\* (a connected graph with one edge less than it has nodes has no cycle)
PassagesFormTree(g) ==
    LET seed == SeedCell(g.width, g.height, g.difficulty)
        P == ClearedPairs(g.cells, g.width, g.height)
        T == JoinedFrom(P, {seed}, {seed})
    IN  /\ g.cells[seed].visited
        /\ \A p \in DOMAIN g.cells : g.cells[p].visited <=> p \in T
        /\ Cardinality(P) = Cardinality(T) - 1

\* the stack is a simple path from the seed cell: visited cells, none
\* twice, each joined to the next by a cleared wall pair
StackIsPath(g) ==
    /\ Len(g.stack) > 0 =>
          g.stack[1] = SeedCell(g.width, g.height, g.difficulty)
    /\ \A i \in 1..Len(g.stack) : g.cells[g.stack[i]].visited
    /\ NoDuplicates(g.stack)
    /\ \A i \in 1..(Len(g.stack) - 1) :
          Joined(g.cells, g.stack[i], g.stack[i + 1])

SpanningTree ==
    /\ gen.pc = "carving" => PassagesFormTree(gen) /\ StackIsPath(gen)
    /\ gen.pc = "returned" =>
          /\ PassagesFormTree(gen)
          /\ \A p \in DOMAIN gen.cells : gen.cells[p].visited
          /\ Cardinality(ClearedPairs(gen.cells, gen.width, gen.height)) =
                gen.width * gen.height - 1

\* C29: the passages carved by generateMaze form a spanning tree of the
\* grid: exactly width*height - 1 internal wall pairs are cleared, the
\* passage graph has no cycle, and in every state of the carving loop the
\* stack is a simple path of visited cells from the seed cell in which
\* consecutive cells are joined by a carved passage.
C29_SpanningTree == []SpanningTree

\* the carving loop is five cells deep in a 3 by 4 maze of which nine cells
\* or more are visited: it has backtracked and carved a branch
C29_Witness ==
    /\ gen.pc = "carving"
    /\ gen.width = 3 /\ gen.height = 4
    /\ Len(gen.stack) = 5
    /\ Cardinality(Unvisited(gen)) <= 3

(***************************************************************************)
(* Properties of generateMaze followed by solve (SpecGenSolve).            *)
(***************************************************************************)

\* C11: on every level generateMaze returns for width, height >= 2, solve
\* returns a Solution for bfs, dfs, astar and dijkstra, and the last cell of
\* each returned path is the carved exit cell (0,1).
C11_GeneratedSolvable ==
    (gen.pc = "returned" /\ AllReturned)
    => \A a \in AllAlgorithms :
          /\ Found(a)
          /\ sol[a].path[Len(sol[a].path)] = Pos(0, 1)

\* a generated 3 by 3 level whose start is the bottom right corner has been
\* solved by the four algorithms
C11_Witness ==
    /\ gen.pc = "returned"
    /\ AllReturned
    /\ level.rows = 3 /\ level.cols = 3
    /\ level.start = Pos(2, 2)
    /\ Found("dfs")

(***************************************************************************)
(* Properties of solve on invalid mazes (SpecInvalid).                     *)
(***************************************************************************)

\* C12: given an invalid maze (non-rectangular rows, start out of bounds,
\* zero rows or columns) solve fails with an error before any search step,
\* for every algorithm: no call returns a Solution or null, and no cell is
\* ever enqueued, visited or expanded.
C12_InvalidFailsFast ==
    /\ \A a \in AllAlgorithms : Returned(a) => sol[a].status = "threw"
    /\ queue = <<>> /\ openSet = <<>> /\ visitedCells = <<>>
    /\ callStack = <<>>

(***************************************************************************)
(* Properties of generateMaze below 2 by 2 (SpecGenSmall).                 *)
(***************************************************************************)

\* C13: generateMaze called with width < 2 or height < 2 does not fail, for
\* any difficulty: no call ends in an error.
C13_SmallDegradesGracefully == gen.pc # "threw"

(***************************************************************************)
(* Properties of two calls of solve on one level (SpecTwice).              *)
(***************************************************************************)

\* the two calls have both returned for algorithm a
BothReturned(a) ==
    /\ suspended # NoOtherCall
    /\ Returned(a)
    /\ suspended.sol[a].status # "notrun"

LoopTimers == { k \in 1..Len(timers) : timers[k].kind = "loop" }

\* at most one loop of visualizeSolving is advancing the step counter
AtMostOneLoop == Cardinality(LoopTimers) <= 1

\* no loop has passed a cancellation check after stop, reset or a new maze
\* was requested of it
CancelObserved == \A k \in LoopTimers : timers[k].checks = 0

\* the completion a cancelled loop has scheduled does not show the path
PathNotShownByCancelled ==
    \A k \in 1..Len(timers) :
        ( /\ timers[k].kind = "complete" /\ timers[k].asked
          /\ timers[k].left = 0
          /\ timers' = splice(timers, k) )
        => (showOptimalPath' => showOptimalPath)

\* C23: once the user requests stop, reset or a new maze while a loop of the
\* non-step-mode animation is running, that loop observes the cancellation
\* flag at its next check and exits without showing the optimal path, under
\* every interleaving of its 25 ms steps with the delayed flag resets and
\* with a later Visualize click; at most one loop advances the step counter.
C23_CancelStopsLoop ==
    /\ [](AtMostOneLoop /\ CancelObserved)
    /\ [][PathNotShownByCancelled]_vars

(***************************************************************************)
(* Properties of solve on the room with a detour (SpecDetour).              *)
(***************************************************************************)
\* position of cell p in the sequence s, 0 when it is not there
PlaceIn(s, p) ==
    IF \E k \in 1..Len(s) : s[k] = p
    THEN CHOOSE k \in 1..Len(s) : s[k] = p
    ELSE 0

\* the expanded cells, and the cell the next iteration removes from the
\* open set, have the least number of moves from start as gScore
ExpandedAtShortest ==
    alg = "astar" =>
        LET D == StartDistances(level)
        IN  /\ \A k \in 1..Len(visitedCells) :
                  gScore[visitedCells[k]] = D[visitedCells[k]]
            /\ Len(openSet) > 0 =>
                  LET current == openSet[MinIndex(openSet, fScore, 2, 1)]
                  IN  gScore[current] = D[current]

\* the route through an expanded cell to an expanded neighbour of it is not
\* shorter than the gScore the neighbour has
SkippedNotShorter ==
    alg = "astar" =>
        \A k \in 1..Len(visitedCells) :
            \A n \in Around(visitedCells[k]) :
                (/\ InBounds(n, level.rows, level.cols)
                 /\ canMoveBetween(level, visitedCells[k], n)
                 /\ visited[n])
                => gScore[n] <= gScore[visitedCells[k]] + 1

\* in the value A* returned the gScores of the expanded cells are the least
\* numbers of moves from start
ReturnedAtShortest ==
    Found("astar") =>
        LET D == StartDistances(level)
            vc == sol["astar"].visitedCells
        IN  \A k \in 1..Len(vc) :
                sol["astar"].aStarScores.gScores[vc[k]] = D[vc[k]]

\* cell n of the open set was reached by a longer route before the route
\* through its parent: an expanded cell u leads to n, was expanded before
\* the parent of n, and the route through u is longer than gScore[n]
LoweredInOpenSet(n) ==
    /\ some(openSet, n)
    /\ \E u \in Around(n) :
          /\ InBounds(u, level.rows, level.cols)
          /\ visited[u]
          /\ canMoveBetween(level, u, n)
          /\ gScore[u] + 1 > gScore[n]
          /\ PlaceIn(visitedCells, u) < PlaceIn(visitedCells, parent[n])

\* C25: whenever A* removes a cell from the open set, the gScore of the cell
\* is the least number of permitted moves from start, so that skipping an
\* expanded neighbour never discards a shorter route, although the gScore of
\* a cell of the open set can be lowered after it was first set.
C25_ExpandedAtShortest ==
    /\ []ExpandedAtShortest
    /\ []SkippedNotShorter
    /\ []ReturnedAtShortest

\* A* is about to expand a cell whose gScore was lowered while it waited in
\* the open set
C25_Witness ==
    /\ alg = "astar"
    /\ Len(openSet) > 0
    /\ LoweredInOpenSet(openSet[MinIndex(openSet, fScore, 2, 1)])

\* the open list of A* and the queue of Dijkstra: no position twice, no
\* expanded cell, a finite score and, start apart, a parent for each member
OpenListSound ==
    /\ alg = "astar" =>
          /\ NoDuplicates(openSet)
          /\ \A k \in 1..Len(openSet) :
                /\ ~visited[openSet[k]]
                /\ gScore[openSet[k]] < Infinity
                /\ fScore[openSet[k]] < Infinity
                /\ openSet[k] # level.start => parent[openSet[k]] # NoPos
    /\ alg = "dijkstra" =>
          /\ NoDuplicates(queue)
          /\ \A k \in 1..Len(queue) :
                /\ ~visited[queue[k]]
                /\ distance[queue[k]] < Infinity
                /\ queue[k] # level.start => parent[queue[k]] # NoPos

\* C26: in every state of A* and of Dijkstra the open list contains no
\* position twice and no expanded cell, and every cell in it has a finite
\* score and, except start, a recorded parent.
C26_OpenListSound == OpenListSound

\* the open set of A* holds four cells or more, one of them reached a second
\* time by a shorter route while it was in the open set
C26_Witness ==
    /\ alg = "astar"
    /\ Len(openSet) >= 4
    /\ Len(visitedCells) >= 4
    /\ \E k \in 1..Len(openSet) : LoweredInOpenSet(openSet[k])

\* step mode is playing
Playing == isStepMode /\ isVisualizing /\ ~isPaused

\* the visualization is complete: the step counter is at
\* visitedCells.length, every visited cell is revealed, the optimal path is
\* shown and isVisualizing is false again
Completed ==
    /\ currentStep = Len(solution.visitedCells)
    /\ visualizedCells = solution.visitedCells
    /\ showOptimalPath
    /\ ~isVisualizing

\* C30: in step-by-step mode, once the user has pressed Play and gives no
\* further input (clicks stays as it is), the visualization eventually
\* completes, for solutions of any length.
C30_StepModeCompletes ==
    \A c \in 0..MaxClicks :
        []((Playing /\ clicks = c) => <>(Completed \/ clicks # c))

====
